---- MODULE Spec2Model ----
(***************************************************************************)
(* SmartLesson: Table-of-Specifications apportionment and the soft-        *)
(* preference assignment of question types to Bloom slots.                 *)
(*                                                                         *)
(*   services/tos_service.py                  apportionment engine         *)
(*   services/tos_slot_assignment_service.py  expansion, assignment,       *)
(*                                            integrity verifier           *)
(*                                                                         *)
(* Python objects are modelled as records, lists as sequences, dicts as    *)
(* functions.  Dicts keyed by Bloom level are iterated in the canonical    *)
(* order of BLOOM_LEVELS and dicts keyed by outcome id in ascending id     *)
(* order: the insertion order of every matrix built here.  Points are      *)
(* exactly representable numbers (the UI enters them in steps of 0.5), so  *)
(* their sums are exact and they are modelled as integers.                 *)
(***************************************************************************)
EXTENDS Integers, Sequences, FiniteSets, TLC

\* ------------------------------------------------------------------------
\* Bounds of the model
\* ------------------------------------------------------------------------
MaxItems == 2
MaxCell == 3
MaxEntries == 2
MaxPoints == 2

OutcomeIds == {0}

\* apportionment inputs
MaxBloomItems == 50
MaxTosItems == 5
MaxOutcomes == 3
MaxHours == 4
MaxQtEntries == 2
MaxQtItems == 2
MaxQtPoints == 1
MaxTestItems == 3
MaxExpandCell == 2
MaxExpandOutcomes == 2
MaxVerifySlots == 2
MaxVerifyCell == 2
MaxAppItems == 2
MaxAppHours == 1
BloomWeightValues == {0, 29, 42, 50, 58, 100}
TosWeightValues == {0, 50, 100}

\* question-type labels a teacher may configure: the six labels of the
\* preference table and one label outside it
TypeLabels ==
    {"MCQ", "Identification", "Short Answer", "Problem Solving", "Essay",
     "Drawing/Diagram", "True/False"}

\* ------------------------------------------------------------------------
\* Generic helpers
\* ------------------------------------------------------------------------
RECURSIVE SumSeq(_)
SumSeq(s) == IF s = <<>> THEN 0 ELSE Head(s) + SumSeq(Tail(s))

RECURSIVE ConcatAll(_)
ConcatAll(ss) == IF ss = <<>> THEN <<>> ELSE Head(ss) \o ConcatAll(Tail(ss))

MinOf(S) == CHOOSE x \in S : \A y \in S : x <= y

RECURSIVE SortedIds(_)
SortedIds(S) ==
    IF S = {} THEN <<>> ELSE <<MinOf(S)>> \o SortedIds(S \ {MinOf(S)})

\* for _ in range(n): append(x)
Replicate(x, n) == [k \in 1..n |-> x]

\* (variant: the used slot is not removed from the pool)
RemoveAtKeepsSlot(s, idx) == s

\* list.pop(idx), 1-based
RemoveAt(s, idx) == SubSeq(s, 1, idx - 1) \o SubSeq(s, idx + 1, Len(s))

CountIn(s, P(_)) == Cardinality({k \in 1..Len(s) : P(s[k])})

Perms(n) == {f \in [1..n -> 1..n] : \A a, b \in 1..n : f[a] = f[b] => a = b}

\* ------------------------------------------------------------------------
\* tos_service.py: BLOOM_LEVELS
\* ------------------------------------------------------------------------
BLOOM_LEVELS ==
    <<"Remember", "Understand", "Apply", "Analyze", "Evaluate", "Create">>

LevelSet == {BLOOM_LEVELS[k] : k \in 1..Len(BLOOM_LEVELS)}

\* ------------------------------------------------------------------------
\* tos_slot_assignment_service.py: PREFERRED_TYPES
\*
\* The dict literal opens with a triple-quoted explanation that is directly
\* followed by the string "Remember": the two adjacent literals form ONE
\* key, so the dict has no key "Remember".  DocRemember stands for that
\* concatenated key.
\* ------------------------------------------------------------------------
DocRemember == "WHY THIS MAPPING? ... Remember"

PREFERRED_TYPES ==
    [k \in {DocRemember, "Understand", "Apply", "Analyze", "Evaluate", "Create"} |->
        CASE k = DocRemember -> <<"MCQ", "Identification">>
          [] k = "Understand" -> <<"MCQ", "Short Answer">>
          [] k = "Apply" -> <<"MCQ", "Problem Solving">>
          [] k = "Analyze" -> <<"Short Answer", "Problem Solving">>
          [] k = "Evaluate" -> <<"Essay", "Problem Solving">>
          [] k = "Create" -> <<"Essay", "Drawing/Diagram">>]

\* PREFERRED_TYPES.get(bloom_level, [])
PreferredGet(bloom_level) ==
    IF bloom_level \in DOMAIN PREFERRED_TYPES
    THEN PREFERRED_TYPES[bloom_level]
    ELSE <<>>

\* ------------------------------------------------------------------------
\* Slot expansion
\* ------------------------------------------------------------------------
KeysInOrder(m) == SelectSeq(BLOOM_LEVELS, LAMBDA l : l \in DOMAIN m)

RowTotal(row) == SumSeq([k \in 1..Len(SortedIds(DOMAIN row)) |->
                            row[SortedIds(DOMAIN row)[k]]])

MatrixTotal(m) == SumSeq([k \in 1..Len(KeysInOrder(m)) |->
                            RowTotal(m[KeysInOrder(m)[k]])])

\* next((o["text"] for o in outcomes if o["id"] == outcome_id), f"Outcome {id}")
OutcomeText(outs, outcome_id) ==
    LET hits == SelectSeq(outs, LAMBDA o : o.id = outcome_id)
    IN  IF hits # <<>> THEN Head(hits).text
        ELSE "Outcome " \o ToString(outcome_id)

BloomSlot(outcome_id, outcome_text, bloom_level) ==
    [outcome_id |-> outcome_id, outcome_text |-> outcome_text,
     bloom_level |-> bloom_level]

expand_bloom_slots(m, outs) ==
    LET levels == KeysInOrder(m)
        cell(l, oid) == Replicate(BloomSlot(oid, OutcomeText(outs, oid), l), m[l][oid])
        row(l) == LET ids == SortedIds(DOMAIN m[l])
                  IN  ConcatAll([k \in 1..Len(ids) |-> cell(l, ids[k])])
    IN  ConcatAll([k \in 1..Len(levels) |-> row(levels[k])])

\* the object identity of a TypeSlot is its position in the expansion (uid)
TypeSlot(question_type, points_per_item, uid) ==
    [question_type |-> question_type, points_per_item |-> points_per_item,
     uid |-> uid]

\* (variant: every slot carries one point instead of the entry's points)
expand_type_slots_unit_points(qts) ==
    LET flat == ConcatAll([k \in 1..Len(qts) |-> Replicate(qts[k], qts[k].items)])
    IN  [k \in 1..Len(flat) |-> TypeSlot(flat[k].type, 1, k)]

expand_type_slots(qts) ==
    LET flat == ConcatAll([k \in 1..Len(qts) |-> Replicate(qts[k], qts[k].items)])
    IN  [k \in 1..Len(flat) |-> TypeSlot(flat[k].type, flat[k].points_per_item, k)]

\* ------------------------------------------------------------------------
\* The matching loop of assign_question_types_to_bloom_slots
\* ------------------------------------------------------------------------
\* for idx, type_slot in enumerate(available_types): first slot of that type
\* (0 when there is none)
FirstOfType(pool, t) ==
    LET hits == {k \in 1..Len(pool) : pool[k].question_type = t}
    IN  IF hits = {} THEN 0 ELSE MinOf(hits)

\* for pref_type in preferred: ... break at the first type found in the pool
RECURSIVE PreferenceScan(_, _)
PreferenceScan(pool, preferred) ==
    IF preferred = <<>> THEN 0
    ELSE IF FirstOfType(pool, Head(preferred)) # 0
         THEN FirstOfType(pool, Head(preferred))
         ELSE PreferenceScan(pool, Tail(preferred))

\* (variant: every assigned slot is given one point)
AssignedSlotUnitPoints(bloom_slot, type_slot, obj) ==
    [outcome_id |-> bloom_slot.outcome_id,
     outcome_text |-> bloom_slot.outcome_text,
     bloom_level |-> bloom_slot.bloom_level,
     question_type |-> type_slot.question_type,
     points |-> 1,
     obj |-> obj]

\* the AssignedSlot built for one (bloom_slot, type_slot) pair; obj is the
\* identity of the new object (its creation rank)
AssignedSlot(bloom_slot, type_slot, obj) ==
    [outcome_id |-> bloom_slot.outcome_id,
     outcome_text |-> bloom_slot.outcome_text,
     bloom_level |-> bloom_slot.bloom_level,
     question_type |-> type_slot.question_type,
     points |-> type_slot.points_per_item,
     obj |-> obj]

IntegrityViolation(total_bloom_items, total_type_items) ==
    [error |-> "ValueError", message |-> "Integrity violation",
     bloom_items |-> total_bloom_items, type_items |-> total_type_items]

\* f"{(preferred_matches / len(assigned) * 100):.1f}% preferred", as the
\* number of tenths of a percent shown (n > 0; no value lies on a rounding
\* tie for n < 16)
CoverageQuality(preferred, n) == (preferred * 2000 + n) \div (2 * n)

\* (variant: a fallback match is also counted as a preferred match)
MetadataCountsFallbackAsPreferred(result, preferred, fallback, n_bloom, n_type, pool) ==
    [total_slots |-> Len(result),
     preferred_matches |-> preferred + fallback,
     fallback_matches |-> fallback,
     coverage_quality |-> CoverageQuality(preferred + fallback, Len(result)),
     integrity_check |->
        [bloom_slots_expanded |-> n_bloom,
         type_slots_expanded |-> n_type,
         slots_assigned |-> Len(result),
         all_types_used |-> (Len(pool) = 0),
         valid |-> (n_bloom = n_type /\ n_type = Len(result))]]

Metadata(result, preferred, fallback, n_bloom, n_type, pool) ==
    [total_slots |-> Len(result),
     preferred_matches |-> preferred,
     fallback_matches |-> fallback,
     coverage_quality |-> CoverageQuality(preferred, Len(result)),
     integrity_check |->
        [bloom_slots_expanded |-> n_bloom,
         type_slots_expanded |-> n_type,
         slots_assigned |-> Len(result),
         all_types_used |-> (Len(pool) = 0),
         valid |-> (n_bloom = n_type /\ n_type = Len(result))]]

\* (variant: sampling with replacement instead of permuting)
ShuffleResamples(list, p) == [k \in 1..Len(list) |-> list[p[1]]]

\* random.shuffle(assigned): the list is permuted in place
Shuffle(list, p) == [k \in 1..Len(list) |-> list[p[k]]]

\* ------------------------------------------------------------------------
\* verify_assignment_integrity
\* ------------------------------------------------------------------------
BloomErrors(slots, m) ==
    LET levels == KeysInOrder(m)
        actual(l) == CountIn(slots, LAMBDA s : s.bloom_level = l)
        err(l) == IF RowTotal(m[l]) # actual(l)
                  THEN <<[check |-> "bloom", key |-> l,
                          expected |-> RowTotal(m[l]), got |-> actual(l)]>>
                  ELSE <<>>
    IN  ConcatAll([k \in 1..Len(levels) |-> err(levels[k])])

TypePointsSum(slots, t) ==
    SumSeq([k \in 1..Len(slots) |->
              IF slots[k].question_type = t THEN slots[k].points ELSE 0])

TypeErrors(slots, qts) ==
    LET actual(t) == CountIn(slots, LAMBDA s : s.question_type = t)
        cnt(qt) == IF qt.items # actual(qt.type)
                   THEN <<[check |-> "type items", key |-> qt.type,
                           expected |-> qt.items, got |-> actual(qt.type)]>>
                   ELSE <<>>
        pts(qt) == IF qt.items * qt.points_per_item # TypePointsSum(slots, qt.type)
                   THEN <<[check |-> "type points", key |-> qt.type,
                           expected |-> qt.items * qt.points_per_item,
                           got |-> TypePointsSum(slots, qt.type)]>>
                   ELSE <<>>
    IN  ConcatAll([k \in 1..Len(qts) |-> cnt(qts[k]) \o pts(qts[k])])

\* len(assigned_slots) != len(set(id(slot) for slot in assigned_slots))
DuplicateErrors(slots) ==
    IF Len(slots) # Cardinality({slots[k].obj : k \in 1..Len(slots)})
    THEN <<[check |-> "duplicates", key |-> "", expected |-> Len(slots),
            got |-> Cardinality({slots[k].obj : k \in 1..Len(slots)})]>>
    ELSE <<>>

verify_assignment_integrity(slots, m, qts) ==
    LET errors == BloomErrors(slots, m) \o TypeErrors(slots, qts)
                    \o DuplicateErrors(slots)
    IN  <<errors = <<>>, errors>>

\* ------------------------------------------------------------------------
\* Python float arithmetic (IEEE 754 binary64, round to nearest, ties to even)
\*
\* A non-negative float is held exactly, in fixed point, as NumLimbs digits
\* of base 2^LimbBits: x[1] is the integer part, x[2..NumLimbs] the digits
\* after the point.  Bit positions count from 1 at the top bit of x[1].
\* Every float met here lies in [2^-10, 2^LimbBits) or is 0, so its 53
\* significant bits, the rounding bit and the bits behind it lie in the
\* window.
\* ------------------------------------------------------------------------
MantissaBits == 53
LimbBits == 16
NumLimbs == 5
Base == 2^LimbBits

BitLen(v) ==
    IF v = 0 THEN 0 ELSE CHOOSE k \in 1..LimbBits : 2^(k - 1) <= v /\ v < 2^k

\* position of the most significant set bit (0 for zero)
LeadPos(x) ==
    LET nz == {j \in 1..NumLimbs : x[j] # 0}
    IN  IF nz = {} THEN 0
        ELSE MinOf(nz) * LimbBits - BitLen(x[MinOf(nz)]) + 1

BitAt(x, pos) ==
    (x[(pos - 1) \div LimbBits + 1]
        \div 2^(LimbBits - 1 - ((pos - 1) % LimbBits))) % 2

\* x with every bit after position `last` cleared
KeepThrough(x, last) ==
    [j \in 1..NumLimbs |->
        IF last >= j * LimbBits THEN x[j]
        ELSE IF last <= (j - 1) * LimbBits THEN 0
        ELSE x[j] - (x[j] % 2^(j * LimbBits - last))]

\* x + amount * Base^(NumLimbs - j), carries propagated upwards
RECURSIVE AddAt(_, _, _)
AddAt(x, j, amount) ==
    IF amount = 0 \/ j = 0 THEN x
    ELSE LET t == x[j] + amount
         IN  AddAt([x EXCEPT ![j] = t % Base], j - 1, t \div Base)

\* the exact value x (sticky: a non-zero tail beyond the window) rounded to
\* the nearest float, ties to even
RoundToFloat(x, sticky) ==
    LET lead == LeadPos(x)
        last == lead + MantissaBits - 1
        kept == KeepThrough(x, last)
        rest == sticky \/ KeepThrough(x, last + 1) # x
    IN  IF lead = 0 \/ last >= NumLimbs * LimbBits THEN x
        ELSE IF kept = x /\ ~sticky THEN x
        ELSE IF BitAt(x, last + 1) = 1 /\ (rest \/ BitAt(x, last) = 1)
        THEN AddAt(kept, (last - 1) \div LimbBits + 1,
                   2^(LimbBits - 1 - ((last - 1) % LimbBits)))
        ELSE kept

\* the digits j..NumLimbs of a quotient with running remainder r, and the
\* remainder left behind the window
RECURSIVE DivLimbs(_, _, _)
DivLimbs(r, b, j) ==
    IF j > NumLimbs THEN [q |-> <<>>, r |-> r]
    ELSE LET lower == DivLimbs((r * Base) % b, b, j + 1)
         IN  [q |-> <<(r * Base) \div b>> \o lower.q, r |-> lower.r]

\* a / b for ints a >= 0, b > 0 (true division): long division, rounded
FloatDiv(a, b) ==
    LET frac == DivLimbs(a % b, b, 2)
    IN  RoundToFloat(<<a \div b>> \o frac.q, frac.r # 0)

RECURSIVE MulLimbs(_, _, _, _)
MulLimbs(n, x, j, carry) ==
    IF j = 0 THEN x
    ELSE LET t == n * x[j] + carry
         IN  MulLimbs(n, [x EXCEPT ![j] = t % Base], j - 1, t \div Base)

\* n * x for an int n >= 0 and a float x: the exact product, rounded
FloatMul(n, x) == RoundToFloat(MulLimbs(n, x, NumLimbs, 0), FALSE)

\* int(x), math.floor(x) for x >= 0
FloatFloor(x) == x[1]

\* x - math.floor(x): exact, the digits after the point
FloatFrac(x) == [x EXCEPT ![1] = 0]

\* x > y
FloatGreater(x, y) ==
    \E d \in 1..NumLimbs :
        /\ x[d] > y[d]
        /\ \A k \in 1..(d - 1) : x[k] = y[k]

\* ------------------------------------------------------------------------
\* tos_service.py: the apportionment engine
\* ------------------------------------------------------------------------
\* count = int(total_items * (bloom_weights[bloom] / 100))
BloomCount(weight, items) == FloatFloor(FloatMul(items, FloatDiv(weight, 100)))

\* (variant: the last level is truncated like the others, nothing absorbs
\* the remainder)
compute_bloom_item_totals_all_truncated(weights, items) ==
    [l \in LevelSet |-> BloomCount(weights[l], items)]

compute_bloom_item_totals(weights, items) ==
    LET n == Len(BLOOM_LEVELS)
        count == [k \in 1..(n - 1) |-> BloomCount(weights[BLOOM_LEVELS[k]], items)]
        remainder == items - SumSeq(count)
    IN  [l \in LevelSet |->
            IF l = BLOOM_LEVELS[n] THEN remainder
            ELSE BloomCount(weights[l], items)]

TotalHours(outs) == SumSeq([k \in 1..Len(outs) |-> outs[k].hours])

\* o["weight"] = o["hours"] / total_hours, for total_hours # 0
compute_outcome_weights(outs) ==
    [k \in 1..Len(outs) |->
        [id |-> outs[k].id, text |-> outs[k].text, hours |-> outs[k].hours,
         weight |-> FloatDiv(outs[k].hours, TotalHours(outs))]]

\* (variant: one unit too few is handed out)
SliceCountOffByOne(n, remaining) ==
    IF remaining >= 1 THEN remaining - 1 ELSE 0

\* number of elements of a list of length n in the slice [:remaining]
SliceCount(n, remaining) ==
    IF remaining >= 0
    THEN (IF remaining < n THEN remaining ELSE n)
    ELSE (IF n + remaining > 0 THEN n + remaining ELSE 0)

\* place of element k in sorted(raw, key=remainder, reverse=True): the sort
\* is stable, equal remainders keep their input order
RemainderRank(key, k) ==
    1 + Cardinality({j \in 1..Len(key) :
            \/ FloatGreater(key[j], key[k])
            \/ (j < k /\ key[j] = key[k])})

\* (variant: the outcome with the largest remainder receives every
\* remaining item)
AwardRemaindersAllToFirst(outs, total_bloom_items, raw, floors, key) ==
    LET remaining == total_bloom_items - SumSeq(floors)
    IN  [oid \in {outs[k].id : k \in 1..Len(outs)} |->
            LET k == CHOOSE k \in 1..Len(outs) : outs[k].id = oid
            IN  floors[k] + (IF RemainderRank(key, k) = 1 THEN remaining ELSE 0)]

\* allocated = floors, then += 1 for the outcomes of remainders[:remaining]
AwardRemainders(outs, total_bloom_items, raw, floors, key) ==
    LET remaining == total_bloom_items - SumSeq(floors)
        awarded == SliceCount(Len(outs), remaining)
    IN  [oid \in {outs[k].id : k \in 1..Len(outs)} |->
            LET k == CHOOSE k \in 1..Len(outs) : outs[k].id = oid
            IN  floors[k] + (IF RemainderRank(key, k) <= awarded THEN 1 ELSE 0)]

\* (variant: every outcome keeps the floor of its share, no remainder is
\* handed out)
AllocateFromRawFloorsOnly(outs, total_bloom_items, raw) ==
    [oid \in {outs[k].id : k \in 1..Len(outs)} |->
        FloatFloor(raw[CHOOSE k \in 1..Len(outs) : outs[k].id = oid])]

\* the cells of one Bloom level with total_bloom_items items
AllocateFromRaw(outs, total_bloom_items, raw) ==
    AwardRemainders(outs, total_bloom_items, raw,
                    [k \in 1..Len(outs) |-> FloatFloor(raw[k])],
                    [k \in 1..Len(outs) |-> FloatFrac(raw[k])])

AllocateLevel(outs, total_bloom_items) ==
    AllocateFromRaw(outs, total_bloom_items,
        [k \in 1..Len(outs) |-> FloatMul(total_bloom_items, outs[k].weight)])

allocate_items_largest_remainder(outs, items_per_level) ==
    [l \in DOMAIN items_per_level |-> AllocateLevel(outs, items_per_level[l])]

\* ------------------------------------------------------------------------
\* State
\* ------------------------------------------------------------------------
VARIABLES
    tos_matrix,           \* assign/verify argument: {bloom_level: {outcome_id: count}}
    outcomes,             \* assign argument: list of {id, text}
    question_types_list,  \* assign/verify argument: list of QuestionType
    shuffle,              \* assign argument
    pc,                   \* position of the caller: start, matching, returned,
                          \* raised, verified
    bloom_slots,          \* locals of assign_question_types_to_bloom_slots
    type_slots,
    available_types,
    assigned,
    preferred_matches,
    fallback_matches,
    result,               \* what assign returned (assigned, metadata) or raised
    verdict,              \* what verify_assignment_integrity returned
    bindings,             \* history: per processed Bloom slot, the pool it saw,
                          \* the type slot it took and how
    run,                  \* 1: first call, 2: second call on the same inputs
    prev,                 \* result of the first call
    bloom_weights,        \* generate_tos arguments
    total_items,
    bloom_items,          \* local of generate_tos
    assigned_slots,       \* generate_tqs argument (a local of the TQS tab)
    groups,               \* locals of generate_tqs
    group_num,
    retry_attempt,
    batch_questions,
    generated_questions,
    failed_groups,
    every_answer_exact,   \* history: the generation service answered every
                          \* batch request so far with the requested number
                          \* of well-formed questions
    generated_tqs,        \* st.session_state.generated_tqs
    tqs_stats,            \* st.session_state.tqs_stats
    api_result            \* what the last question service call returned

\* the question sheet of the session
sheet_vars == <<generated_tqs, tqs_stats, api_result>>

\* what neither the apportionment nor the assignment touches
tqs_vars ==
    <<assigned_slots, groups, group_num, retry_attempt, batch_questions,
      generated_questions, failed_groups, every_answer_exact, sheet_vars>>

vars ==
    <<tos_matrix, outcomes, question_types_list, shuffle, pc, bloom_slots,
      type_slots, available_types, assigned, preferred_matches,
      fallback_matches, result, verdict, bindings, run, prev, bloom_weights,
      total_items, bloom_items, tqs_vars>>

inputs == <<tos_matrix, outcomes, question_types_list>>

\* what the assignment never touches
tos_vars == <<bloom_weights, total_items, bloom_items, tqs_vars>>

\* what the apportionment never touches
assign_vars ==
    <<question_types_list, shuffle, bloom_slots, type_slots, available_types,
      assigned, preferred_matches, fallback_matches, verdict, bindings, run,
      prev, tqs_vars>>

NoValue == [none |-> TRUE]

\* no question sheet is being generated or edited
\* batch_questions = None (tqs_service.py: before the retry loop of a group)
NoBatch == [is_none |-> TRUE, questions |-> <<>>]

IdleTqs ==
    /\ assigned_slots = <<>>
    /\ groups = <<>>
    /\ group_num = 0
    /\ retry_attempt = 0
    /\ batch_questions = NoBatch
    /\ generated_questions = <<>>
    /\ failed_groups = <<>>
    /\ every_answer_exact = TRUE
    /\ generated_tqs = <<>>
    /\ tqs_stats = NoValue
    /\ api_result = NoValue

QuestionType(type, items, points_per_item) ==
    [type |-> type, items |-> items, points_per_item |-> points_per_item]

TotalTypeItems(qts) == SumSeq([k \in 1..Len(qts) |-> qts[k].items])

\* ------------------------------------------------------------------------
\* Inputs of the assignment specification
\* ------------------------------------------------------------------------
Matrices ==
    {m \in [LevelSet -> [OutcomeIds -> 0..MaxCell]] : MatrixTotal(m) <= MaxItems}

Entries ==
    {QuestionType(t, n, p) : t \in TypeLabels, n \in 0..(MaxItems + 1), p \in 1..MaxPoints}

\* an entry with no items expands to no slot: such entries are drawn only in
\* one-entry lists (the all-zero distribution)
Distributions ==
    {d \in UNION {[1..n -> Entries] : n \in 0..MaxEntries} :
        /\ TotalTypeItems(d) <= MaxItems + 1
        /\ Len(d) > 1 => \A k \in 1..Len(d) : d[k].items > 0}

OutcomeList == [k \in 1..Cardinality(OutcomeIds) |->
                  [id |-> SortedIds(OutcomeIds)[k],
                   text |-> "LO " \o ToString(SortedIds(OutcomeIds)[k])]]

Init ==
    /\ tos_matrix \in Matrices
    /\ outcomes = OutcomeList
    /\ question_types_list \in Distributions
    /\ shuffle = FALSE
    /\ pc = "start"
    /\ bloom_slots = <<>>
    /\ type_slots = <<>>
    /\ available_types = <<>>
    /\ assigned = <<>>
    /\ preferred_matches = 0
    /\ fallback_matches = 0
    /\ result = NoValue
    /\ verdict = NoValue
    /\ bindings = <<>>
    /\ run = 1
    /\ prev = NoValue
    /\ bloom_weights = NoValue
    /\ total_items = 0
    /\ bloom_items = NoValue
    /\ IdleTqs

\* ------------------------------------------------------------------------
\* assign_question_types_to_bloom_slots, step by step
\* ------------------------------------------------------------------------
\* (variant: only a shortage of type slots is detected)
MismatchedTotalsOneSided(total_bloom_items, total_type_items) ==
    total_bloom_items > total_type_items

\* if total_bloom_items != total_type_items: raise
MismatchedTotals(total_bloom_items, total_type_items) ==
    total_bloom_items # total_type_items

\* steps 1, 2 and the validation
Expand ==
    /\ pc = "start"
    /\ LET bs == expand_bloom_slots(tos_matrix, outcomes)
           ts == expand_type_slots(question_types_list)
       IN  /\ bloom_slots' = bs
           /\ type_slots' = ts
           /\ IF MismatchedTotals(Len(bs), Len(ts))
              THEN /\ pc' = "raised"
                   /\ result' = IntegrityViolation(Len(bs), Len(ts))
                   /\ UNCHANGED available_types
              ELSE /\ pc' = "matching"
                   /\ available_types' = ts
                   /\ UNCHANGED result
    /\ assigned' = <<>>
    /\ preferred_matches' = 0
    /\ fallback_matches' = 0
    /\ bindings' = <<>>
    /\ UNCHANGED <<inputs, shuffle, verdict, run, prev, tos_vars>>

\* one iteration of "for bloom_slot in bloom_slots"
AssignSlot ==
    /\ pc = "matching"
    /\ Len(assigned) < Len(bloom_slots)
    /\ LET bloom_slot == bloom_slots[Len(assigned) + 1]
           preferred == PreferredGet(bloom_slot.bloom_level)
           pref_idx == PreferenceScan(available_types, preferred)
       IN  IF pref_idx # 0
           THEN /\ assigned' = Append(assigned,
                      AssignedSlot(bloom_slot, available_types[pref_idx],
                                   Len(assigned) + 1))
                /\ preferred_matches' = preferred_matches + 1
                /\ available_types' = RemoveAt(available_types, pref_idx)
                /\ bindings' = Append(bindings,
                      [kind |-> "preferred", pool |-> available_types,
                       idx |-> pref_idx])
                /\ UNCHANGED <<fallback_matches, pc, result>>
           ELSE IF available_types # <<>>
           THEN /\ assigned' = Append(assigned,
                      AssignedSlot(bloom_slot, available_types[1],
                                   Len(assigned) + 1))
                /\ fallback_matches' = fallback_matches + 1
                /\ available_types' = RemoveAt(available_types, 1)
                /\ bindings' = Append(bindings,
                      [kind |-> "fallback", pool |-> available_types,
                       idx |-> 1])
                /\ UNCHANGED <<preferred_matches, pc, result>>
           ELSE /\ pc' = "raised"
                /\ result' = [error |-> "ValueError",
                              message |-> "No available question types"]
                /\ UNCHANGED <<assigned, preferred_matches, fallback_matches,
                               available_types, bindings>>
    /\ UNCHANGED <<inputs, shuffle, bloom_slots, type_slots, verdict, run, prev,
                   tos_vars>>

\* (variant: the flag is ignored and the list always shuffled)
FinalOrdersAlwaysShuffled(list, flag) ==
    {Shuffle(list, p) : p \in Perms(Len(list))}

\* if shuffle: random.shuffle(assigned)
FinalOrders(list, flag) ==
    IF flag THEN {Shuffle(list, p) : p \in Perms(Len(list))} ELSE {list}

\* step 4, the metadata and the return
Finish ==
    /\ pc = "matching"
    /\ Len(assigned) = Len(bloom_slots)
    /\ \E final \in FinalOrders(assigned, shuffle) :
          /\ assigned' = final
          /\ IF Len(final) = 0
             THEN \* preferred_matches / len(assigned) divides by zero
                  /\ pc' = "raised"
                  /\ result' = [error |-> "ZeroDivisionError",
                                message |-> "division by zero"]
             ELSE /\ pc' = "returned"
                  /\ result' = [assigned |-> final,
                                metadata |-> Metadata(final, preferred_matches,
                                    fallback_matches, Len(bloom_slots),
                                    Len(type_slots), available_types)]
    /\ UNCHANGED <<inputs, shuffle, bloom_slots, type_slots, available_types,
                   preferred_matches, fallback_matches, verdict, bindings,
                   run, prev, tos_vars>>

\* verify_softmapping_algo.py: verify the returned list against the inputs
Verify ==
    /\ pc = "returned"
    /\ verdict' = verify_assignment_integrity(result.assigned, tos_matrix,
                                              question_types_list)
    /\ pc' = "verified"
    /\ UNCHANGED <<inputs, shuffle, bloom_slots, type_slots, available_types,
                   assigned, preferred_matches, fallback_matches, result,
                   bindings, run, prev, tos_vars>>

\* the caller calls assign a second time with the same M, outcomes and D
CallAgain ==
    /\ pc = "verified"
    /\ run = 1
    /\ run' = 2
    /\ prev' = result
    /\ shuffle' \in BOOLEAN
    /\ pc' = "start"
    /\ bloom_slots' = <<>>
    /\ type_slots' = <<>>
    /\ available_types' = <<>>
    /\ assigned' = <<>>
    /\ preferred_matches' = 0
    /\ fallback_matches' = 0
    /\ result' = NoValue
    /\ verdict' = NoValue
    /\ bindings' = <<>>
    /\ UNCHANGED <<inputs, tos_vars>>

Next == Expand \/ AssignSlot \/ Finish \/ Verify \/ CallAgain

Spec == Init /\ [][Next]_vars

\* ------------------------------------------------------------------------
\* generate_tos, step by step
\* ------------------------------------------------------------------------
WeightVectors(values) ==
    {w \in [LevelSet -> values] :
        SumSeq([k \in 1..Len(BLOOM_LEVELS) |-> w[BLOOM_LEVELS[k]]]) = 100}

\* outcome lists with unique ids 0..n-1 and whole hours
OutcomeLists ==
    UNION {{[k \in 1..n |-> [id |-> k - 1, text |-> "LO " \o ToString(k - 1),
                              hours |-> h[k]]] :
                h \in [1..n -> 0..MaxHours]} : n \in 0..MaxOutcomes}

IdleAssignment ==
    /\ question_types_list = <<>>
    /\ shuffle = FALSE
    /\ bloom_slots = <<>>
    /\ type_slots = <<>>
    /\ available_types = <<>>
    /\ assigned = <<>>
    /\ preferred_matches = 0
    /\ fallback_matches = 0
    /\ verdict = NoValue
    /\ bindings = <<>>
    /\ run = 1
    /\ prev = NoValue
    /\ IdleTqs

\* compute_bloom_item_totals called on its own
InitBloom ==
    /\ bloom_weights \in WeightVectors(BloomWeightValues)
    /\ total_items \in 0..MaxBloomItems
    /\ outcomes = <<>>
    /\ pc = "generate_tos"
    /\ bloom_items = NoValue
    /\ tos_matrix = NoValue
    /\ result = NoValue
    /\ IdleAssignment

InitTos ==
    /\ bloom_weights \in WeightVectors(TosWeightValues)
    /\ total_items \in 0..MaxTosItems
    /\ outcomes \in OutcomeLists
    /\ pc = "generate_tos"
    /\ bloom_items = NoValue
    /\ tos_matrix = NoValue
    /\ result = NoValue
    /\ IdleAssignment

ComputeBloomItemTotals ==
    /\ pc = "generate_tos"
    /\ bloom_items' = compute_bloom_item_totals(bloom_weights, total_items)
    /\ pc' = "outcome_weights"
    /\ UNCHANGED <<bloom_weights, total_items, outcomes, tos_matrix, result,
                   assign_vars>>

\* (variant: zero total hours are silently defaulted to zero weights)
CallOutcomeWeightsDefaultsZero(outs) ==
    IF TotalHours(outs) = 0
    THEN [raised |-> FALSE,
          outcomes |-> [k \in 1..Len(outs) |->
              [id |-> outs[k].id, text |-> outs[k].text,
               hours |-> outs[k].hours, weight |-> FloatDiv(0, 1)]]]
    ELSE [raised |-> FALSE, outcomes |-> compute_outcome_weights(outs)]

\* the call compute_outcome_weights(outcomes): raises before the loop that
\* sets the weights when total_hours == 0
CallOutcomeWeights(outs) ==
    IF TotalHours(outs) = 0
    THEN [raised |-> TRUE, outcomes |-> outs]
    ELSE [raised |-> FALSE, outcomes |-> compute_outcome_weights(outs)]

ComputeOutcomeWeights ==
    /\ pc = "outcome_weights"
    /\ IF CallOutcomeWeights(outcomes).raised
       THEN /\ pc' = "raised"
            /\ result' = [error |-> "ValueError",
                          message |-> "Total outcome hours cannot be zero."]
            /\ UNCHANGED outcomes
       ELSE /\ pc' = "allocate"
            /\ outcomes' = CallOutcomeWeights(outcomes).outcomes
            /\ UNCHANGED result
    /\ UNCHANGED <<bloom_weights, total_items, bloom_items, tos_matrix,
                   assign_vars>>

AllocateItemsLargestRemainder ==
    /\ pc = "allocate"
    /\ tos_matrix' = allocate_items_largest_remainder(outcomes, bloom_items)
    /\ result' = [bloom_totals |-> bloom_items, tos_matrix |-> tos_matrix']
    /\ pc' = "tos_done"
    /\ UNCHANGED <<bloom_weights, total_items, bloom_items, outcomes,
                   assign_vars>>

NextBloom == ComputeBloomItemTotals

SpecBloom == InitBloom /\ [][NextBloom]_vars

NextTos ==
    ComputeBloomItemTotals \/ ComputeOutcomeWeights \/ AllocateItemsLargestRemainder

SpecTos == InitTos /\ [][NextTos]_vars

\* ========================================================================
\* Properties of the assignment
\* ========================================================================
Returned == pc \in {"returned", "verified"}

\* the preference table as the specification states it
SpecPreferred ==
    [l \in LevelSet |->
        CASE l = "Remember" -> <<"MCQ", "Identification">>
          [] l = "Understand" -> <<"MCQ", "Short Answer">>
          [] l = "Apply" -> <<"MCQ", "Problem Solving">>
          [] l = "Analyze" -> <<"Short Answer", "Problem Solving">>
          [] l = "Evaluate" -> <<"Essay", "Problem Solving">>
          [] l = "Create" -> <<"Essay", "Drawing/Diagram">>]

PoolTypes(pool) == {pool[k].question_type : k \in 1..Len(pool)}

\* the earliest type of a preference list that the pool holds ("" if none)
EarliestAvailable(prefs, pool) ==
    LET hits == {k \in 1..Len(prefs) : prefs[k] \in PoolTypes(pool)}
    IN  IF hits = {} THEN "" ELSE prefs[MinOf(hits)]

\* the type slot taken by the k-th binding
Taken(k) == bindings[k].pool[bindings[k].idx]

Fields(slot) ==
    <<slot.outcome_id, slot.outcome_text, slot.bloom_level,
      slot.question_type, slot.points>>

SameBag(a, b) ==
    /\ Len(a) = Len(b)
    /\ \A x \in {a[k] : k \in 1..Len(a)} \cup {b[k] : k \in 1..Len(b)} :
          CountIn(a, LAMBDA y : y = x) = CountIn(b, LAMBDA y : y = x)

FieldsOf(list) == [k \in 1..Len(list) |-> Fields(list[k])]

\* C1: whenever M and D have equal total item counts, assign with shuffle off
\* returns and verify on its output then answers (True, []).
C1_TotalsPreserved ==
    (/\ shuffle = FALSE
     /\ MatrixTotal(tos_matrix) = TotalTypeItems(question_types_list)
     /\ pc # "start")
    => /\ pc # "raised"
       /\ pc = "verified" => verdict = <<TRUE, <<>>>>

\* C2: whenever assign succeeds, every Bloom slot got exactly one
\* AssignedSlot, every type slot was consumed exactly once, none is left in
\* the pool, and the three lengths agree.
C2_Coverage ==
    Returned =>
        /\ Len(result.assigned) = Len(bloom_slots)
        /\ Len(bloom_slots) = Len(type_slots)
        /\ Len(bindings) = Len(bloom_slots)
        /\ \A k \in 1..Len(bloom_slots) :
              Cardinality({j \in 1..Len(result.assigned) :
                  /\ result.assigned[j].obj = k
                  /\ result.assigned[j].outcome_id = bloom_slots[k].outcome_id
                  /\ result.assigned[j].bloom_level = bloom_slots[k].bloom_level}) = 1
        /\ \A u \in 1..Len(type_slots) :
              Cardinality({k \in 1..Len(bindings) : Taken(k).uid = u}) = 1
        /\ available_types = <<>>
        /\ result.metadata.integrity_check.all_types_used
        /\ result.metadata.integrity_check.valid

C2_Witness ==
    /\ pc = "returned"
    /\ Len(result.assigned) = 2
    /\ bindings[1].idx = 2

\* C3: whenever the two expansions differ in length (the sum of M's cells
\* differs from the sum of D's items), assign raises the integrity violation
\* naming both totals, with no slot bound and nothing returned.
C3_MismatchDetected ==
    (/\ pc # "start"
     /\ MatrixTotal(tos_matrix) # TotalTypeItems(question_types_list))
    => /\ Len(bloom_slots) # Len(type_slots)
       /\ pc = "raised"
       /\ result = IntegrityViolation(MatrixTotal(tos_matrix),
                                      TotalTypeItems(question_types_list))
       /\ bindings = <<>>
       /\ assigned = <<>>

C3_Witness ==
    /\ pc = "raised"
    /\ result.message = "Integrity violation"
    /\ result.bloom_items = 2
    /\ result.type_items = 3

\* C4: every processed Bloom slot whose pool held a type of its level's
\* preference list was bound to a slot of the earliest such type, and the
\* binding was counted as a preferred match.
C4_PreferredMatchRule ==
    \A k \in 1..Len(bindings) :
        LET want == EarliestAvailable(SpecPreferred[bloom_slots[k].bloom_level],
                                      bindings[k].pool)
        IN  want # "" =>
               /\ Taken(k).question_type = want
               /\ bindings[k].kind = "preferred"

\* C5: a Bloom slot is bound by fallback exactly when its pool held no type of
\* its level's preference list, and then it takes the first slot of the pool.
C5_FallbackRule ==
    \A k \in 1..Len(bindings) :
        LET want == EarliestAvailable(SpecPreferred[bloom_slots[k].bloom_level],
                                      bindings[k].pool)
        IN  /\ (bindings[k].kind = "fallback") <=> (want = "")
            /\ bindings[k].kind = "fallback" => bindings[k].idx = 1

\* C6: with shuffle off, the second call on the same inputs returns the same
\* list, in the same order, and the same metadata as the first.
C6_Deterministic ==
    (run = 2 /\ shuffle = FALSE /\ Returned) => result = prev

C6_Witness ==
    /\ run = 2
    /\ shuffle = FALSE
    /\ pc = "returned"
    /\ Len(result.assigned) = 2
    /\ result.assigned[1] # result.assigned[2]

\* C7: the list returned with shuffle on is a permutation of the list
\* returned with shuffle off, and the preferred/fallback counts agree.
C7_ShufflePermutes ==
    (run = 2 /\ shuffle = TRUE /\ Returned) =>
        /\ SameBag(FieldsOf(result.assigned), FieldsOf(prev.assigned))
        /\ result.metadata.preferred_matches = prev.metadata.preferred_matches
        /\ result.metadata.fallback_matches = prev.metadata.fallback_matches

C7_Witness ==
    /\ run = 2
    /\ shuffle = TRUE
    /\ pc = "returned"
    /\ FieldsOf(result.assigned) # FieldsOf(prev.assigned)

\* ========================================================================
\* Properties of the apportionment
\* ========================================================================
BloomItemsComputed == pc = "outcome_weights"

SumOverLevels(f) == SumSeq([k \in 1..Len(BLOOM_LEVELS) |-> f[BLOOM_LEVELS[k]]])

\* floor(total_items * weight / 100), in exact arithmetic
ExactShare(weight, items) == (items * weight) \div 100

\* C8: for weights that sum to 100 and every total_items >= 0, the six
\* counts of compute_bloom_item_totals sum to exactly total_items.
C8_ApportionmentSums ==
    BloomItemsComputed => SumOverLevels(bloom_items) = total_items

C8_Witness ==
    /\ BloomItemsComputed
    /\ total_items = 7
    /\ bloom_weights["Create"] = 0
    /\ bloom_items["Create"] = 1

\* C9: every level except Create gets exactly floor(total_items * weight /
\* 100) and Create gets total_items minus the other five; total_items = 0
\* gives all zeros, and Remember 50, Understand 50 with 10 items gives 5, 5
\* and four zeros.
C9_BloomLevelFormula ==
    BloomItemsComputed =>
        /\ \A k \in 1..(Len(BLOOM_LEVELS) - 1) :
              bloom_items[BLOOM_LEVELS[k]] =
                  ExactShare(bloom_weights[BLOOM_LEVELS[k]], total_items)
        /\ bloom_items["Create"] =
              total_items - SumSeq([k \in 1..(Len(BLOOM_LEVELS) - 1) |->
                                      bloom_items[BLOOM_LEVELS[k]]])
        /\ total_items = 0 => \A l \in LevelSet : bloom_items[l] = 0
        /\ (/\ total_items = 10
            /\ bloom_weights["Remember"] = 50
            /\ bloom_weights["Understand"] = 50)
           => bloom_items = [l \in LevelSet |->
                                IF l \in {"Remember", "Understand"} THEN 5 ELSE 0]

\* C10: for every list of outcomes with unique ids and positive total hours
\* and every level, the cells allocated to the level sum to exactly the
\* level's total.
C10_ColumnConservation ==
    pc = "tos_done" =>
        \A l \in LevelSet : RowTotal(tos_matrix[l]) = bloom_items[l]

C10_Witness ==
    /\ pc = "tos_done"
    /\ Len(outcomes) = 2
    /\ outcomes[1].hours = 3
    /\ outcomes[2].hours = 1
    /\ bloom_items["Remember"] = 5
    /\ tos_matrix["Remember"][0] = 4
    /\ tos_matrix["Remember"][1] = 1

\* the outcomes (positions in the input list) of a level whose cell is one
\* more than the floor of the exact share T * hours / total hours
ExactFloor(l, k) == (bloom_items[l] * outcomes[k].hours) \div TotalHours(outcomes)

ExactRemainder(l, k) == (bloom_items[l] * outcomes[k].hours) % TotalHours(outcomes)

Awarded(l) ==
    {k \in 1..Len(outcomes) : tos_matrix[l][outcomes[k].id] = ExactFloor(l, k) + 1}

\* C11: for each level with total T, exactly the `remaining` outcomes with
\* the largest fractional remainders of T * weight get floor + 1 and all
\* others get the floor; among equal remainders the outcome earlier in the
\* input list wins. Hours 3 and 1 with T = 5 give {0: 4, 1: 1}.
C11_LargestRemainder ==
    pc = "tos_done" =>
        \A l \in LevelSet :
            LET n == Len(outcomes)
                remaining == bloom_items[l]
                             - SumSeq([k \in 1..n |-> ExactFloor(l, k)])
            IN  /\ Cardinality(Awarded(l)) = remaining
                /\ \A k \in (1..n) \ Awarded(l) :
                       tos_matrix[l][outcomes[k].id] = ExactFloor(l, k)
                /\ \A k \in Awarded(l) : \A j \in (1..n) \ Awarded(l) :
                       \/ ExactRemainder(l, k) > ExactRemainder(l, j)
                       \/ (ExactRemainder(l, k) = ExactRemainder(l, j) /\ k < j)
                /\ (/\ n = 2
                    /\ outcomes[1].hours = 3
                    /\ outcomes[2].hours = 1
                    /\ bloom_items[l] = 5)
                   => tos_matrix[l] = (0 :> 4 @@ 1 :> 1)

\* C12: for weights summing to 100, total_items >= 0 and outcomes with
\* unique ids and positive total hours, the matrix returned by generate_tos
\* has every outcome id as a key of every level, every cell a non-negative
\* integer, each level's cells summing to the level's bloom total, and all
\* cells together summing to total_items.
C12_TosMatrixInvariant ==
    pc = "tos_done" =>
        LET m == result.tos_matrix
        IN  /\ DOMAIN m = LevelSet
            /\ \A l \in LevelSet :
                  /\ DOMAIN m[l] = {outcomes[k].id : k \in 1..Len(outcomes)}
                  /\ \A oid \in DOMAIN m[l] : m[l][oid] \in Nat
                  /\ RowTotal(m[l]) = result.bloom_totals[l]
            /\ MatrixTotal(m) = total_items

C12_Witness ==
    /\ pc = "tos_done"
    /\ total_items = 5
    /\ Len(outcomes) = 3
    /\ outcomes[2].hours = 0
    /\ result.bloom_totals["Apply"] = 2
    /\ result.bloom_totals["Create"] = 3
    /\ result.tos_matrix["Create"] = (0 :> 2 @@ 1 :> 0 @@ 2 :> 1)

\* C13: when the outcomes' hours sum to 0 (an empty outcome list included),
\* compute_outcome_weights fails with an error instead of returning, no
\* outcome is given a weight, and generate_tos propagates the failure
\* without producing any matrix.
C13_ZeroHoursFailure ==
    (/\ TotalHours(outcomes) = 0
     /\ pc \notin {"generate_tos", "outcome_weights"})
    => /\ pc = "raised"
       /\ result = [error |-> "ValueError",
                    message |-> "Total outcome hours cannot be zero."]
       /\ \A k \in 1..Len(outcomes) : "weight" \notin DOMAIN outcomes[k]
       /\ tos_matrix = NoValue

C13_Witness ==
    /\ pc = "raised"
    /\ Len(outcomes) = 2
    /\ TotalHours(outcomes) = 0
    /\ total_items = 5

\* ========================================================================
\* question_type_service.py: validation and totals of a distribution
\* ========================================================================
\* errors.append(f"..."): a message is its rule and the values it formats
NoTypesError == [rule |-> "At least one question type must be defined."]

SumError(sum_items, total_test_items) ==
    [rule |-> "Sum of question type items must equal total test items.",
     total_items |-> sum_items, total_test_items |-> total_test_items]

ItemsError(qt) ==
    [rule |-> "Question type must have at least 1 item.",
     type |-> qt.type, current |-> qt.items]

PointsError(qt) ==
    [rule |-> "Question type must have positive points per item.",
     type |-> qt.type, current |-> qt.points_per_item]

DuplicatesError(names) ==
    [rule |-> "Duplicate question types found", names |-> names]

\* [name for name in type_names if type_names.count(name) > 1]
DuplicateNames(qts) ==
    SelectSeq([k \in 1..Len(qts) |-> qts[k].type],
              LAMBDA name : Cardinality({j \in 1..Len(qts) : qts[j].type = name}) > 1)

\* the errors of one entry, items first
PositiveValueErrors(qt) ==
    (IF qt.items <= 0 THEN <<ItemsError(qt)>> ELSE <<>>)
    \o (IF qt.points_per_item <= 0 THEN <<PointsError(qt)>> ELSE <<>>)

EntryErrors(qts) ==
    ConcatAll([k \in 1..Len(qts) |-> PositiveValueErrors(qts[k])])

\* (variant: duplicate labels are not looked for)
DuplicateCheckMissing(qts) == <<>>

DuplicateCheck(qts) ==
    IF DuplicateNames(qts) # <<>>
    THEN <<DuplicatesError({DuplicateNames(qts)[k] :
                               k \in 1..Len(DuplicateNames(qts))})>>
    ELSE <<>>

validate_question_type_distribution(question_types, total_test_items) ==
    IF question_types = <<>>
    THEN <<FALSE, <<NoTypesError>>>>
    ELSE LET sum_items == TotalTypeItems(question_types)
             errors ==
                 (IF sum_items # total_test_items
                  THEN <<SumError(sum_items, total_test_items)>> ELSE <<>>)
                 \o EntryErrors(question_types)
                 \o DuplicateCheck(question_types)
         IN  <<Len(errors) = 0, errors>>

\* qt.total_points()
total_points(qt) == qt.items * qt.points_per_item

\* (variant: the points of an entry are counted once, not once per item)
compute_question_type_totals_per_entry(question_types) ==
    <<TotalTypeItems(question_types),
      SumSeq([k \in 1..Len(question_types) |-> question_types[k].points_per_item])>>

compute_question_type_totals(question_types) ==
    <<TotalTypeItems(question_types),
      SumSeq([k \in 1..Len(question_types) |-> total_points(question_types[k])])>>

\* ------------------------------------------------------------------------
\* A caller of the question type service: validate, then the totals twice
\* ------------------------------------------------------------------------
QtLabels == {"MCQ", "Essay"}

QtEntries ==
    {QuestionType(t, n, p) :
        t \in QtLabels, n \in (0 - 1)..MaxQtItems, p \in (0 - 1)..MaxQtPoints}

QtDistributions == UNION {[1..n -> QtEntries] : n \in 0..MaxQtEntries}

qt_vars == <<question_types_list, total_items>>

InitQt ==
    /\ question_types_list \in QtDistributions
    /\ total_items \in 0..MaxTestItems
    /\ pc = "qt_start"
    /\ tos_matrix = NoValue
    /\ outcomes = <<>>
    /\ shuffle = FALSE
    /\ bloom_slots = <<>>
    /\ type_slots = <<>>
    /\ available_types = <<>>
    /\ assigned = <<>>
    /\ preferred_matches = 0
    /\ fallback_matches = 0
    /\ result = NoValue
    /\ verdict = NoValue
    /\ bindings = <<>>
    /\ run = 1
    /\ prev = NoValue
    /\ bloom_weights = NoValue
    /\ bloom_items = NoValue
    /\ IdleTqs

ValidateDistribution ==
    /\ pc = "qt_start"
    /\ verdict' = validate_question_type_distribution(question_types_list,
                                                      total_items)
    /\ pc' = "validated"
    /\ UNCHANGED <<qt_vars, tos_matrix, outcomes, shuffle, bloom_slots,
                   type_slots, available_types, assigned, preferred_matches,
                   fallback_matches, result, bindings, run, prev,
                   bloom_weights, bloom_items, tqs_vars>>

ComputeQuestionTypeTotals ==
    /\ pc = "validated"
    /\ result' = compute_question_type_totals(question_types_list)
    /\ pc' = "totalled"
    /\ UNCHANGED <<qt_vars, tos_matrix, outcomes, shuffle, bloom_slots,
                   type_slots, available_types, assigned, preferred_matches,
                   fallback_matches, verdict, bindings, run, prev,
                   bloom_weights, bloom_items, tqs_vars>>

ComputeQuestionTypeTotalsAgain ==
    /\ pc = "totalled"
    /\ run = 1
    /\ prev' = result
    /\ result' = compute_question_type_totals(question_types_list)
    /\ run' = 2
    /\ UNCHANGED <<qt_vars, pc, tos_matrix, outcomes, shuffle, bloom_slots,
                   type_slots, available_types, assigned, preferred_matches,
                   fallback_matches, verdict, bindings, bloom_weights,
                   bloom_items, tqs_vars>>

NextQt ==
    ValidateDistribution \/ ComputeQuestionTypeTotals
        \/ ComputeQuestionTypeTotalsAgain

SpecQt == InitQt /\ [][NextQt]_vars

\* ------------------------------------------------------------------------
\* Properties of the question type service
\* ------------------------------------------------------------------------
Validated == pc \in {"validated", "totalled"}

CountEntries(P(_)) ==
    Cardinality({k \in 1..Len(question_types_list) : P(question_types_list[k])})

CountErrors(P(_)) ==
    Cardinality({k \in 1..Len(verdict[2]) : P(verdict[2][k])})

HasDuplicateLabel ==
    \E j, k \in 1..Len(question_types_list) :
        j # k /\ question_types_list[j].type = question_types_list[k].type

\* C14: validate returns ok = True with an empty error list if and only if
\* the distribution has at least one entry, its items sum to total_items,
\* every entry has items > 0 and points_per_item > 0, and no type label
\* occurs twice; otherwise ok = False and the error list is non-empty.
C14_ValidationVerdict ==
    Validated =>
        LET good ==
                /\ Len(question_types_list) >= 1
                /\ TotalTypeItems(question_types_list) = total_items
                /\ \A k \in 1..Len(question_types_list) :
                      /\ question_types_list[k].items > 0
                      /\ question_types_list[k].points_per_item > 0
                /\ ~HasDuplicateLabel
        IN  IF good THEN verdict = <<TRUE, <<>>>>
            ELSE verdict[1] = FALSE /\ Len(verdict[2]) > 0

C14_Witness ==
    /\ Validated
    /\ verdict = <<TRUE, <<>>>>
    /\ Len(question_types_list) = 2
    /\ total_items = 3

\* C15: validate returns all violations in one pass: for every input, each
\* violated rule (no entries; item sum # total_items; each entry with
\* items <= 0; each entry with points_per_item <= 0; duplicate labels) has
\* its own error in the returned list.
C15_ValidationComplete ==
    Validated =>
        /\ Len(question_types_list) = 0 =>
              CountErrors(LAMBDA e : e = NoTypesError) = 1
        /\ TotalTypeItems(question_types_list) # total_items =>
              CountErrors(LAMBDA e :
                  e = SumError(TotalTypeItems(question_types_list),
                               total_items)) = 1
        /\ CountErrors(LAMBDA e : e.rule = ItemsError(QuestionType("", 0, 0)).rule)
              = CountEntries(LAMBDA qt : qt.items <= 0)
        /\ CountErrors(LAMBDA e : e.rule = PointsError(QuestionType("", 0, 0)).rule)
              = CountEntries(LAMBDA qt : qt.points_per_item <= 0)
        /\ \A k \in 1..Len(question_types_list) :
              /\ question_types_list[k].items <= 0 =>
                    CountErrors(LAMBDA e : e = ItemsError(question_types_list[k])) >= 1
              /\ question_types_list[k].points_per_item <= 0 =>
                    CountErrors(LAMBDA e : e = PointsError(question_types_list[k])) >= 1
        /\ HasDuplicateLabel =>
              CountErrors(LAMBDA e : e.rule = DuplicatesError({}).rule) = 1

\* ========================================================================
\* The slot expansions called on their own
\* ========================================================================
ExpandLevels == {"Remember", "Apply", "Create"}

ExpandOutcomes ==
    [k \in 1..MaxExpandOutcomes |->
        [id |-> k - 1, text |-> "LO " \o ToString(k - 1)]]

\* matrices over some of the levels, every outcome a key of every row
ExpandMatrices ==
    UNION {[S -> [{ExpandOutcomes[k].id : k \in 1..MaxExpandOutcomes}
                    -> 0..MaxExpandCell]] : S \in SUBSET ExpandLevels}

\* distributions as the data model allows them: items >= 0, points > 0
ExpandDistributions ==
    UNION {[1..n -> {QuestionType(t, i, p) :
                        t \in QtLabels, i \in 0..MaxQtItems, p \in 1..MaxPoints}] :
              n \in 0..MaxQtEntries}

InitExpand ==
    /\ \/ /\ pc = "expand_bloom"
          /\ tos_matrix \in ExpandMatrices
          /\ question_types_list = <<>>
       \/ /\ pc = "expand_types"
          /\ tos_matrix = <<>>
          /\ question_types_list \in ExpandDistributions
    /\ outcomes = ExpandOutcomes
    /\ shuffle = FALSE
    /\ bloom_slots = <<>>
    /\ type_slots = <<>>
    /\ available_types = <<>>
    /\ assigned = <<>>
    /\ preferred_matches = 0
    /\ fallback_matches = 0
    /\ result = NoValue
    /\ verdict = NoValue
    /\ bindings = <<>>
    /\ run = 1
    /\ prev = NoValue
    /\ bloom_weights = NoValue
    /\ total_items = 0
    /\ bloom_items = NoValue
    /\ IdleTqs

ExpandBloomSlots ==
    /\ pc = "expand_bloom"
    /\ bloom_slots' = expand_bloom_slots(tos_matrix, outcomes)
    /\ pc' = "bloom_expanded"
    /\ UNCHANGED <<inputs, shuffle, type_slots, available_types, assigned,
                   preferred_matches, fallback_matches, result, verdict,
                   bindings, run, prev, tos_vars>>

ExpandTypeSlots ==
    /\ pc = "expand_types"
    /\ type_slots' = expand_type_slots(question_types_list)
    /\ pc' = "types_expanded"
    /\ UNCHANGED <<inputs, shuffle, bloom_slots, available_types, assigned,
                   preferred_matches, fallback_matches, result, verdict,
                   bindings, run, prev, tos_vars>>

NextExpand == ExpandBloomSlots \/ ExpandTypeSlots

SpecExpand == InitExpand /\ [][NextExpand]_vars

\* ------------------------------------------------------------------------
\* Properties of the slot expansions
\* ------------------------------------------------------------------------
LevelIndex(l) == CHOOSE k \in 1..Len(BLOOM_LEVELS) : BLOOM_LEVELS[k] = l

SlotsOfCell(l, oid) ==
    {k \in 1..Len(bloom_slots) :
        bloom_slots[k].bloom_level = l /\ bloom_slots[k].outcome_id = oid}

SlotsOfType(t) == {k \in 1..Len(type_slots) : type_slots[k].question_type = t}

EntriesOfType(t) ==
    {k \in 1..Len(question_types_list) : question_types_list[k].type = t}

\* the Bloom half: length, counts per (level, outcome), emission order
BloomRoundTrip ==
    /\ Len(bloom_slots) = MatrixTotal(tos_matrix)
    /\ \A k \in 1..Len(bloom_slots) :
          /\ bloom_slots[k].bloom_level \in DOMAIN tos_matrix
          /\ bloom_slots[k].outcome_id
                \in DOMAIN tos_matrix[bloom_slots[k].bloom_level]
    /\ \A l \in DOMAIN tos_matrix : \A oid \in DOMAIN tos_matrix[l] :
          Cardinality(SlotsOfCell(l, oid)) = tos_matrix[l][oid]
    /\ \A i, j \in 1..Len(bloom_slots) :
          i < j =>
             \/ LevelIndex(bloom_slots[i].bloom_level)
                    < LevelIndex(bloom_slots[j].bloom_level)
             \/ /\ bloom_slots[i].bloom_level = bloom_slots[j].bloom_level
                /\ bloom_slots[i].outcome_id <= bloom_slots[j].outcome_id

\* the type half as claimed: per entry, its count and its points
TypeRoundTripPerEntry ==
    /\ Len(type_slots) = TotalTypeItems(question_types_list)
    /\ \A e \in 1..Len(question_types_list) :
          /\ Cardinality(SlotsOfType(question_types_list[e].type))
                = question_types_list[e].items
          /\ \A k \in SlotsOfType(question_types_list[e].type) :
                type_slots[k].points_per_item
                    = question_types_list[e].points_per_item

\* the type half per label: the entries of a label counted together
TypeRoundTripPerLabel ==
    /\ Len(type_slots) = TotalTypeItems(question_types_list)
    /\ \A k \in 1..Len(type_slots) :
          \E e \in EntriesOfType(type_slots[k].question_type) :
              type_slots[k].points_per_item
                  = question_types_list[e].points_per_item
    /\ \A t \in QtLabels :
          Cardinality(SlotsOfType(t))
              = SumSeq([e \in 1..Len(question_types_list) |->
                          IF question_types_list[e].type = t
                          THEN question_types_list[e].items ELSE 0])

\* C16 (as claimed): for every matrix M with non-negative cells the number
\* of Bloom slots is the sum of M's cells and counting them by (level,
\* outcome) reproduces M, emitted level-major, then in outcome order; for
\* every distribution D the number of type slots is the sum of items and
\* counting them by type reproduces each entry's item count, every slot
\* carrying that entry's points_per_item.
C16_ExpansionRoundTrip ==
    /\ pc = "bloom_expanded" => BloomRoundTrip
    /\ pc = "types_expanded" => TypeRoundTripPerEntry

\* C16 (amended): the Bloom half as claimed; for every distribution D the
\* number of type slots is the sum of items, the slots of a type are as
\* many as the items of all entries with that label and each carries the
\* points_per_item of one of them; when no label occurs twice in D this is
\* each entry's item count and points_per_item.
C16_ExpansionRoundTripPerLabel ==
    /\ pc = "bloom_expanded" => BloomRoundTrip
    /\ pc = "types_expanded" =>
          /\ TypeRoundTripPerLabel
          /\ ~HasDuplicateLabel => TypeRoundTripPerEntry

C16_Witness ==
    /\ pc = "types_expanded"
    /\ Len(question_types_list) = 2
    /\ ~HasDuplicateLabel
    /\ question_types_list[1].items = 2
    /\ question_types_list[2].items = 1
    /\ question_types_list[1].points_per_item = 2
    /\ question_types_list[2].points_per_item = 1
    /\ Len(type_slots) = 3

\* ========================================================================
\* verify_assignment_integrity called on any list of assigned slots
\* ========================================================================
VerifyLevels == {"Remember", "Apply"}

VerifySlotValues ==
    {AssignedSlot(BloomSlot(0, "LO 0", l), TypeSlot(t, p, 0), 0) :
        l \in VerifyLevels, t \in QtLabels, p \in 1..MaxPoints}

\* lists of slot objects; the same object may occur twice in a list
VerifyAssignedLists ==
    UNION {{[k \in 1..n |-> [s[k] EXCEPT !.obj = o[k]]] :
                <<s, o>> \in {so \in [1..n -> VerifySlotValues] \X [1..n -> 1..n] :
                    /\ \A k \in 1..n : so[2][k] <= k
                    /\ \A k \in 1..n : so[2][k] = k \/ so[1][so[2][k]] = so[1][k]
                    /\ \A k \in 1..n : so[2][so[2][k]] = so[2][k]}} :
           n \in 0..MaxVerifySlots}

VerifyMatrices ==
    UNION {[S -> [{0} -> 0..MaxVerifyCell]] : S \in SUBSET VerifyLevels}

InitVerify ==
    /\ assigned \in VerifyAssignedLists
    /\ tos_matrix \in VerifyMatrices
    /\ question_types_list \in ExpandDistributions
    /\ pc = "verify_start"
    /\ outcomes = <<[id |-> 0, text |-> "LO 0"]>>
    /\ shuffle = FALSE
    /\ bloom_slots = <<>>
    /\ type_slots = <<>>
    /\ available_types = <<>>
    /\ preferred_matches = 0
    /\ fallback_matches = 0
    /\ result = NoValue
    /\ verdict = NoValue
    /\ bindings = <<>>
    /\ run = 1
    /\ prev = NoValue
    /\ bloom_weights = NoValue
    /\ total_items = 0
    /\ bloom_items = NoValue
    /\ IdleTqs

VerifyAssignmentIntegrity ==
    /\ pc = "verify_start"
    /\ verdict' = verify_assignment_integrity(assigned, tos_matrix,
                                              question_types_list)
    /\ pc' = "verify_done"
    /\ UNCHANGED <<inputs, shuffle, bloom_slots, type_slots, available_types,
                   assigned, preferred_matches, fallback_matches, result,
                   bindings, run, prev, tos_vars>>

NextVerify == VerifyAssignmentIntegrity

SpecVerify == InitVerify /\ [][NextVerify]_vars

\* ------------------------------------------------------------------------
\* Properties of the verifier
\* ------------------------------------------------------------------------
AssignedOfLevel(l) == {k \in 1..Len(assigned) : assigned[k].bloom_level = l}

AssignedOfType(t) == {k \in 1..Len(assigned) : assigned[k].question_type = t}

PointsOfType(t) ==
    SumSeq([k \in 1..Len(assigned) |->
              IF assigned[k].question_type = t THEN assigned[k].points ELSE 0])

\* the counts taken from the assigned list agree with M and D, and no slot
\* lies outside M's levels or D's types
CountsAgree ==
    /\ \A l \in DOMAIN tos_matrix :
          Cardinality(AssignedOfLevel(l)) = RowTotal(tos_matrix[l])
    /\ \A e \in 1..Len(question_types_list) :
          LET qt == question_types_list[e]
          IN  /\ Cardinality(AssignedOfType(qt.type)) = qt.items
              /\ PointsOfType(qt.type) = qt.items * qt.points_per_item
    /\ \A k \in 1..Len(assigned) :
          /\ assigned[k].bloom_level \in DOMAIN tos_matrix
          /\ assigned[k].question_type
                \in {question_types_list[e].type :
                        e \in 1..Len(question_types_list)}

\* C17: verify never raises and returns (True, []) if and only if, counting
\* from the assigned list alone, the slots of every Bloom level are as many
\* as the sum of M's cells for the level and the slots and points of every
\* question type equal the type's items and items * points_per_item in D;
\* any mismatch, slots whose level is absent from M or whose type is absent
\* from D included, yields ok = False with an error per mismatch.
C17_VerifierExact ==
    pc = "verify_done" =>
        /\ verdict[1] \in BOOLEAN
        /\ verdict = <<TRUE, <<>>>> <=> CountsAgree
        /\ ~CountsAgree => verdict[1] = FALSE /\ Len(verdict[2]) >= 1

\* ------------------------------------------------------------------------
\* Properties of the ledger totals
\* ------------------------------------------------------------------------
RECURSIVE LedgerItems(_)
LedgerItems(d) ==
    IF d = <<>> THEN 0 ELSE Head(d).items + LedgerItems(Tail(d))

RECURSIVE LedgerPoints(_)
LedgerPoints(d) ==
    IF d = <<>> THEN 0
    ELSE Head(d).items * Head(d).points_per_item + LedgerPoints(Tail(d))

TotalsReturned ==
    pc = "totalled" =>
        /\ result = <<LedgerItems(question_types_list),
                      LedgerPoints(question_types_list)>>
        /\ question_types_list = <<>> => result = <<0, 0>>
        /\ run = 2 => prev = result

\* C18: compute_question_type_totals returns (sum of items, sum of items *
\* points_per_item) for every distribution, the empty one included; it
\* leaves the distribution unchanged and a second call on the same input
\* gives the same result.
C18_LedgerTotals ==
    /\ []TotalsReturned
    /\ [][question_types_list' = question_types_list]_vars

C18_Witness ==
    /\ pc = "totalled"
    /\ run = 2
    /\ Len(question_types_list) = 2
    /\ question_types_list[1].items = 2
    /\ question_types_list[2].items = 1
    /\ result = <<3, 3>>
    /\ prev = <<3, 3>>

\* ------------------------------------------------------------------------
\* The Remember/Apply scenario of verify_softmapping_algo.py
\* ------------------------------------------------------------------------
\* the matrix holds r Remember and a Apply items and nothing else, the
\* distribution is [MCQ: r items, Problem Solving: a items], shuffle is off
RememberApplyScenario ==
    /\ shuffle = FALSE
    /\ DOMAIN tos_matrix = LevelSet
    /\ \A l \in LevelSet \ {"Remember", "Apply"} : RowTotal(tos_matrix[l]) = 0
    /\ Len(question_types_list) = 2
    /\ question_types_list[1].type = "MCQ"
    /\ question_types_list[1].items = RowTotal(tos_matrix["Remember"])
    /\ question_types_list[2].type = "Problem Solving"
    /\ question_types_list[2].items = RowTotal(tos_matrix["Apply"])

\* C19: in the scenario every Remember slot is paired with MCQ and every
\* Apply slot with Problem Solving, all r + a bindings are preferred
\* matches (preferred_matches = r + a, fallback_matches = 0) and verify
\* returns (True, []).
C19_RememberApplyScenario ==
    (RememberApplyScenario /\ pc \in {"returned", "verified", "raised"}) =>
        /\ pc # "raised"
        /\ \A k \in 1..Len(result.assigned) :
              /\ result.assigned[k].bloom_level = "Remember"
                    => result.assigned[k].question_type = "MCQ"
              /\ result.assigned[k].bloom_level = "Apply"
                    => result.assigned[k].question_type = "Problem Solving"
        /\ result.metadata.preferred_matches = MatrixTotal(tos_matrix)
        /\ result.metadata.fallback_matches = 0
        /\ pc = "verified" => verdict = <<TRUE, <<>>>>

\* ========================================================================
\* app.py: the Bloom profile tab and the Generate TOS action of a session
\* ========================================================================
\* the default profiles of the "Program Type" radio
ProfileDefaults ==
    [Board |->
        [Remember |-> 30, Understand |-> 30, Apply |-> 20, Analyze |-> 10,
         Evaluate |-> 5, Create |-> 5],
     NonBoard |->
        [Remember |-> 10, Understand |-> 15, Apply |-> 30, Analyze |-> 30,
         Evaluate |-> 10, Create |-> 5],
     Custom |->
        [Remember |-> 0, Understand |-> 0, Apply |-> 0, Analyze |-> 0,
         Evaluate |-> 0, Create |-> 0]]

\* slider positions (min 0, max 100, step 5) and the sliders moved
AppSliderValues == {0, 50}

AppSliderLevels == {"Remember", "Understand", "Create"}

\* st.session_state.assessment_outcomes as the handler reads it: id is the
\* position, hours the number entered
AppOutcomeLists ==
    UNION {{[k \in 1..n |-> [id |-> k - 1, text |-> "LO " \o ToString(k - 1),
                              hours |-> h[k]]] :
                h \in [1..n -> 0..MaxAppHours]} : n \in 0..1}

\* st.session_state.question_types
AppDistributions ==
    {<<QuestionType("MCQ", n, 1)>> : n \in 0..MaxAppItems}
        \cup {<<QuestionType("MCQ", 1, 1), QuestionType("Essay", 1, 2)>>}

\* the for bloom_slot in bloom_slots loop of the assignment, run to its end
\* (the pool is as long as the slot list, and no slot list is empty)
RECURSIVE MatchLoop(_, _, _)
MatchLoop(slots, pool, acc) ==
    IF slots = <<>> THEN acc
    ELSE LET pref_idx == PreferenceScan(pool,
                             PreferredGet(Head(slots).bloom_level))
             idx == IF pref_idx # 0 THEN pref_idx ELSE 1
         IN  MatchLoop(Tail(slots), RemoveAt(pool, idx),
                 Append(acc, AssignedSlot(Head(slots), pool[idx], Len(acc) + 1)))

\* result = generate_tos(outcomes, bloom_weights, total_items), hours > 0
generate_tos(outs, weights, items) ==
    LET totals == compute_bloom_item_totals(weights, items)
    IN  [bloom_totals |-> totals,
         tos_matrix |->
            allocate_items_largest_remainder(compute_outcome_weights(outs),
                                             totals)]

\* the session after the first run of the script: the first profile is
\* selected and its defaults are stored
InitApp ==
    /\ bloom_weights = ProfileDefaults["Board"]
    /\ outcomes \in AppOutcomeLists
    /\ total_items \in 1..MaxAppItems
    /\ question_types_list \in AppDistributions
    /\ pc = "app_idle"
    /\ tos_matrix = NoValue
    /\ bloom_items = NoValue
    /\ shuffle = TRUE
    /\ bloom_slots = <<>>
    /\ type_slots = <<>>
    /\ available_types = <<>>
    /\ assigned = <<>>
    /\ preferred_matches = 0
    /\ fallback_matches = 0
    /\ result = NoValue
    /\ verdict = NoValue
    /\ bindings = <<>>
    /\ run = 1
    /\ prev = NoValue
    /\ IdleTqs

\* st.session_state.generated_tos and st.session_state.assigned_slots
app_session == <<result, assigned>>

\* (assigned_slots is a local of the TQS tab: every rerun of the script
\* starts without it)
app_untouched ==
    <<tos_matrix, outcomes, question_types_list, shuffle, bloom_slots,
      type_slots, available_types, preferred_matches, fallback_matches,
      verdict, bindings, run, prev, total_items, bloom_items, groups,
      group_num, retry_attempt, batch_questions, generated_questions,
      failed_groups, every_answer_exact, sheet_vars>>

\* another profile is picked: the sliders take its defaults, the script
\* reruns and stores them (a slider whose default is the same in both
\* profiles keeps its position in the application; the positions reached
\* that way are reached here by MoveSlider)
SelectProfile ==
    /\ \E p \in DOMAIN ProfileDefaults : bloom_weights' = ProfileDefaults[p]
    /\ pc' = "app_idle"
    /\ assigned_slots' = <<>>
    /\ UNCHANGED <<app_session, app_untouched>>

\* a slider is moved: the script reruns, shows the total and an error or a
\* success message, and stores the weights whatever their total
MoveSlider ==
    /\ \E bloom \in AppSliderLevels, value \in AppSliderValues :
          bloom_weights' = [bloom_weights EXCEPT ![bloom] = value]
    /\ pc' = "app_idle"
    /\ assigned_slots' = <<>>
    /\ UNCHANGED <<app_session, app_untouched>>

\* the Generate TOS button (disabled unless the question types are valid)
\* is clicked
ClickGenerate ==
    /\ validate_question_type_distribution(question_types_list, total_items)[1]
    /\ IF outcomes = <<>> \/ total_items <= 0
       THEN /\ pc' = "stopped"
            /\ UNCHANGED app_session
       ELSE IF CallOutcomeWeights(outcomes).raised
       THEN /\ pc' = "raised"
            /\ UNCHANGED app_session
       ELSE LET tos == generate_tos(outcomes, bloom_weights, total_items)
                slots == MatchLoop(
                             expand_bloom_slots(tos.tos_matrix, outcomes),
                             expand_type_slots(question_types_list), <<>>)
            IN  /\ \E final \in FinalOrders(slots, TRUE) : assigned' = final
                /\ result' =
                      [outcomes |-> compute_outcome_weights(outcomes),
                       tos_matrix |-> tos.tos_matrix,
                       bloom_totals |-> tos.bloom_totals,
                       question_types |-> question_types_list,
                       total_items |-> total_items,
                       total_points |->
                          compute_question_type_totals(question_types_list)[2]]
                /\ pc' = "generated"
    /\ assigned_slots' = <<>>
    /\ UNCHANGED <<bloom_weights, app_untouched>>

\* ------------------------------------------------------------------------
\* app.py: the TQS tab
\* ------------------------------------------------------------------------
\* the question types offered by the selectbox that are configured here,
\* in the order of the widget list, and the points entered
TqsQuestionTypes == <<"MCQ", "Essay">>

TqsPointValues == {1}

\* "Single Question Type": the configuration the script stores
SingleConfig(type, points_per_item) ==
    [mode |-> "single", type |-> type, points_per_item |-> points_per_item]

\* "Mixed Question Types": mixed_config keeps the types with items > 0, in
\* the order of the widget list
MixedConfig(items, points, tos_total) ==
    [mode |-> "mixed",
     distribution |->
        SelectSeq([k \in 1..Len(TqsQuestionTypes) |->
                      [type |-> TqsQuestionTypes[k], items |-> items[k],
                       points_per_item |-> points[k]]],
                  LAMBDA c : c.items > 0),
     total_items |-> tos_total]

\* the configurations the widgets can hold for a TOS of tos_total items
\* (the items inputs are capped at the TOS total)
TestTypeConfigs(tos_total) ==
    {SingleConfig(TqsQuestionTypes[k], p) :
        k \in 1..Len(TqsQuestionTypes), p \in TqsPointValues}
    \cup {MixedConfig(items, points, tos_total) :
            items \in [1..Len(TqsQuestionTypes) -> 0..tos_total],
            points \in [1..Len(TqsQuestionTypes) -> TqsPointValues]}

\* for bloom in BLOOM_LEVELS: for outcome in outcomes: for _ in range(count)
TosSlotCells(tos_data) ==
    LET outs == tos_data.outcomes
        m == tos_data.tos_matrix
        count(l, o) == IF l \in DOMAIN m /\ o.id \in DOMAIN m[l]
                       THEN m[l][o.id] ELSE 0
        cell(l, o) == Replicate(BloomSlot(o.id, o.text, l), count(l, o))
        row(l) == ConcatAll([k \in 1..Len(outs) |-> cell(l, outs[k])])
    IN  ConcatAll([k \in 1..Len(BLOOM_LEVELS) |-> row(BLOOM_LEVELS[k])])

\* the slot dictionary both conversions build
SlotDict(cell, question_type, points) ==
    [outcome_id |-> cell.outcome_id, outcome_text |-> cell.outcome_text,
     bloom_level |-> cell.bloom_level, question_type |-> question_type,
     points |-> points]

convert_tos_to_assigned_slots(tos_data, question_type, points_per_item) ==
    LET cells == TosSlotCells(tos_data)
    IN  IF tos_data.outcomes = <<>>
        THEN <<FALSE, "No learning outcomes found in TOS">>
        ELSE IF DOMAIN tos_data.tos_matrix = {}
        THEN <<FALSE, "No TOS matrix found">>
        ELSE IF MatrixTotal(tos_data.tos_matrix) = 0
        THEN <<FALSE, "TOS contains no items (all slots are zero)">>
        ELSE IF cells = <<>>
        THEN <<FALSE, "No slots generated from TOS">>
        ELSE <<TRUE, [k \in 1..Len(cells) |->
                        SlotDict(cells[k], question_type, points_per_item)]>>

\* calculate_mixed_distribution_slots; p is the order random.shuffle gives
\* the type slots
calculate_mixed_distribution_slots(tos_data, distribution, p) ==
    LET total_slots_in_dist ==
            SumSeq([k \in 1..Len(distribution) |-> distribution[k].items])
        mixed_slots ==
            Shuffle(ConcatAll([k \in 1..Len(distribution) |->
                        Replicate(distribution[k], distribution[k].items)]), p)
        cells == TosSlotCells(tos_data)
        taken == IF Len(cells) < Len(mixed_slots) THEN Len(cells)
                 ELSE Len(mixed_slots)
    IN  IF total_slots_in_dist # tos_data.total_items
        THEN <<FALSE, "Distribution items must equal TOS total">>
        ELSE <<TRUE, [k \in 1..taken |->
                        SlotDict(cells[k], mixed_slots[k].type,
                                 mixed_slots[k].points_per_item)]>>

\* what the handler of the button gets back for a configuration
SlotConversions(tos_to_use, config) ==
    IF config.mode = "single"
    THEN {convert_tos_to_assigned_slots(tos_to_use, config.type,
                                        config.points_per_item)}
    ELSE {calculate_mixed_distribution_slots(tos_to_use, config.distribution, p) :
            p \in Perms(SumSeq([k \in 1..Len(config.distribution) |->
                                   config.distribution[k].items]))}

\* the Generate Test Questions button is clicked with a generated TOS in
\* the session and no uploaded one: the script stores the configuration of
\* the widgets (config), converts the TOS to slots and calls generate_tqs
ClickGenerateTestQuestions ==
    /\ result # NoValue
    /\ \E config \in TestTypeConfigs(result.total_items) :
          \E converted \in SlotConversions(result, config) :
              IF converted[1]
              THEN /\ assigned_slots' = converted[2]
                   /\ pc' = "generate_tqs"
              ELSE /\ assigned_slots' = <<>>
                   /\ pc' = "tqs_stopped"
    /\ UNCHANGED <<bloom_weights, app_session, app_untouched>>

NextApp ==
    SelectProfile \/ MoveSlider \/ ClickGenerate \/ ClickGenerateTestQuestions

SpecApp == InitApp /\ [][NextApp]_vars

\* C20: Bloom weights whose sum is not 100 are never accepted: in every
\* reachable session state the stored bloom_weights sum to 100, and the
\* Generate TOS action never calls generate_tos with weights that do not
\* sum to 100.
C20_WeightsGate ==
    /\ SumOverLevels(bloom_weights) = 100
    /\ pc \in {"generated", "raised"} => SumOverLevels(bloom_weights) = 100

\* C22: the slot list handed to generate_tqs for an in-app generated TOS is
\* the AssignedSlot list the soft-preference assignment produced for that
\* TOS and question-type distribution: same multiset of outcome, Bloom
\* level, question type and points.
C22_BlueprintConsumption ==
    pc = "generate_tqs" => SameBag(FieldsOf(assigned_slots), FieldsOf(assigned))

\* ------------------------------------------------------------------------
\* Properties of the assignment metadata
\* ------------------------------------------------------------------------
\* the counters while the loop runs, the metadata once assign has returned;
\* coverage_quality is shown to one decimal: the tenth of a percent nearest
\* to preferred_matches / total_slots * 100
MetadataConsistent ==
    /\ pc = "matching" => preferred_matches + fallback_matches = Len(assigned)
    /\ Returned =>
          LET md == result.metadata
          IN  /\ md.total_slots = Len(result.assigned)
              /\ md.preferred_matches + md.fallback_matches = md.total_slots
              /\ md.preferred_matches \in Nat /\ md.fallback_matches \in Nat
              /\ 2 * (md.coverage_quality * md.total_slots
                        - md.preferred_matches * 1000) <= md.total_slots
              /\ 2 * (md.preferred_matches * 1000
                        - md.coverage_quality * md.total_slots) <= md.total_slots

OneCounterPerSlot ==
    (pc = "matching" /\ Len(assigned') = Len(assigned) + 1) =>
        \/ /\ preferred_matches' = preferred_matches + 1
           /\ fallback_matches' = fallback_matches
        \/ /\ preferred_matches' = preferred_matches
           /\ fallback_matches' = fallback_matches + 1

\* C21: in every successful assign, metadata.total_slots is the length of
\* the returned list, preferred_matches + fallback_matches is total_slots,
\* each processed Bloom slot increments exactly one of the two counters,
\* and coverage_quality is preferred_matches / total_slots * 100.
C21_AssignmentMetadata ==
    /\ []MetadataConsistent
    /\ [][OneCounterPerSlot]_vars

C21_Witness ==
    /\ Returned
    /\ result.metadata.total_slots = 2
    /\ result.metadata.preferred_matches = 1
    /\ result.metadata.fallback_matches = 1
    /\ result.metadata.coverage_quality = 500

\* ========================================================================
\* app.py: generate_tos followed by the assignment on its matrix
\* ========================================================================
MaxPipeItems == 3

MaxPipeOutcomes == 2

MaxPipeHours == 2

\* weights summing to 100, the two preset profiles among them
PipeWeights ==
    WeightVectors(TosWeightValues)
        \cup {ProfileDefaults["Board"], ProfileDefaults["NonBoard"]}

\* outcomes with unique ids and a positive total of hours
PipeOutcomeLists ==
    {outs \in UNION {{[k \in 1..n |->
                         [id |-> k - 1, text |-> "LO " \o ToString(k - 1),
                          hours |-> h[k]]] :
                        h \in [1..n -> 0..MaxPipeHours]} :
                     n \in 1..MaxPipeOutcomes} :
        TotalHours(outs) > 0}

\* the distributions the Generate button accepts for a test of that size
\* (an accepted list has no two entries of one type)
PipeEntries(total) ==
    {QuestionType(t, n, p) : t \in QtLabels, n \in 0..total, p \in 1..MaxQtPoints}

PipeDistributions(total) ==
    {d \in UNION {[1..n -> PipeEntries(total)] : n \in 0..Cardinality(QtLabels)} :
        validate_question_type_distribution(d, total)[1]}

InitPipeline ==
    /\ bloom_weights \in PipeWeights
    /\ total_items \in 1..MaxPipeItems
    /\ outcomes \in PipeOutcomeLists
    /\ question_types_list \in PipeDistributions(total_items)
    /\ shuffle \in BOOLEAN
    /\ pc = "generate_tos"
    /\ bloom_items = NoValue
    /\ tos_matrix = NoValue
    /\ result = NoValue
    /\ bloom_slots = <<>>
    /\ type_slots = <<>>
    /\ available_types = <<>>
    /\ assigned = <<>>
    /\ preferred_matches = 0
    /\ fallback_matches = 0
    /\ verdict = NoValue
    /\ bindings = <<>>
    /\ run = 1
    /\ prev = NoValue
    /\ IdleTqs

\* assign_question_types_to_bloom_slots(tos_matrix=result["tos_matrix"],
\* outcomes=outcomes, question_types_list=...) is called
CallAssign ==
    /\ pc = "tos_done"
    /\ pc' = "start"
    /\ UNCHANGED <<inputs, shuffle, bloom_slots, type_slots, available_types,
                   assigned, preferred_matches, fallback_matches, result,
                   verdict, bindings, run, prev, tos_vars>>

NextPipeline ==
    \/ ComputeBloomItemTotals
    \/ ComputeOutcomeWeights
    \/ AllocateItemsLargestRemainder
    \/ CallAssign
    \/ Expand
    \/ AssignSlot
    \/ Finish

SpecPipeline == InitPipeline /\ [][NextPipeline]_vars

\* C23: for weights summing to 100, outcomes with positive total hours and
\* unique ids, and a distribution that validate accepts for total_items,
\* generate_tos followed by assign on its matrix never fails with the
\* integrity violation: the number of Bloom slots, the number of type slots
\* and total_items are all equal.
C23_PipelineConsistency ==
    pc \in {"matching", "returned", "raised"} =>
        /\ result # IntegrityViolation(Len(bloom_slots), Len(type_slots))
        /\ Len(bloom_slots) = total_items
        /\ Len(type_slots) = total_items

C23_Witness ==
    /\ pc = "returned"
    /\ total_items = 3
    /\ Len(outcomes) = 2
    /\ Len(question_types_list) = 2
    /\ bloom_weights = ProfileDefaults["Board"]

\* ------------------------------------------------------------------------
\* Properties of the fields of the assigned slots
\* ------------------------------------------------------------------------
\* the i-th returned slot against the i-th Bloom slot and the type slots of
\* the expansions of the arguments
FieldsPreserved ==
    (Returned /\ shuffle = FALSE) =>
        LET bloom_expansion == expand_bloom_slots(tos_matrix, outcomes)
            type_expansion == expand_type_slots(question_types_list)
        IN  /\ Len(result.assigned) = Len(bloom_expansion)
            /\ \A i \in 1..Len(result.assigned) :
                  LET a == result.assigned[i]
                  IN  /\ a.outcome_id = bloom_expansion[i].outcome_id
                      /\ a.outcome_text = bloom_expansion[i].outcome_text
                      /\ a.bloom_level = bloom_expansion[i].bloom_level
                      /\ \E k \in 1..Len(type_expansion) :
                            /\ a.question_type = type_expansion[k].question_type
                            /\ a.points = type_expansion[k].points_per_item

\* C24: with shuffle off, the i-th AssignedSlot carries the outcome_id,
\* outcome_text and bloom_level of the i-th Bloom slot of the expansion and
\* the question_type and points of one type slot of the expansion, all
\* unchanged; assign leaves M, outcomes and D unmodified.
C24_FieldPreservation ==
    /\ []FieldsPreserved
    /\ [][inputs' = inputs]_vars

C24_Witness ==
    /\ Returned
    /\ shuffle = FALSE
    /\ Len(result.assigned) = 2
    /\ result.assigned[1].points = 2
    /\ result.assigned[1].bloom_level # result.assigned[2].bloom_level
    /\ result.assigned[1].question_type # result.assigned[2].question_type

\* ------------------------------------------------------------------------
\* Properties of the rows of the generated matrix
\* ------------------------------------------------------------------------
\* sum of the cells of outcome k over the six levels
OutcomeItems(m, k) ==
    SumSeq([j \in 1..Len(BLOOM_LEVELS) |-> m[BLOOM_LEVELS[j]][outcomes[k].id]])

\* value = total_bloom_items * o["weight"], as the allocation computes it
RawShare(l, k) == FloatMul(bloom_items[l], outcomes[k].weight)

C26_EqualTotalsSucceed ==
    (/\ pc \in {"returned", "verified", "raised"}
     /\ Len(bloom_slots) = Len(type_slots))
    => /\ pc # "raised"
       /\ Len(bloom_slots) = 0 =>
             /\ result.assigned = <<>>
             /\ result.metadata.total_slots = 0

\* the number of preferred pairings of a one-to-one pairing p of the Bloom
\* slots with the type slots, under the preference table
PreferredPairings(p) ==
    Cardinality({k \in 1..Len(bloom_slots) :
        \E j \in 1..Len(SpecPreferred[bloom_slots[k].bloom_level]) :
            SpecPreferred[bloom_slots[k].bloom_level][j]
                = type_slots[p[k]].question_type})

\* the largest number any pairing achieves
MaxPreferredPairings ==
    LET counts == {PreferredPairings(p) : p \in Perms(Len(bloom_slots))}
    IN  CHOOSE c \in counts : \A d \in counts : d <= c

\* C27 (as stated): for every M and D with equal totals, the number of
\* preferred matches of the greedy assignment (shuffle off) equals the
\* maximum number of preferred pairings achievable by any one-to-one pairing
\* of the Bloom slots with the type slots.
C27_AlignmentMaximized ==
    (Returned /\ shuffle = FALSE) =>
        result.metadata.preferred_matches = MaxPreferredPairings

\* C27 (amended): for every M and D with equal totals, the number of
\* preferred matches of the greedy assignment (shuffle off) never exceeds
\* the maximum number of preferred pairings achievable by any one-to-one
\* pairing of the Bloom slots with the type slots; it can be smaller.
C27_AlignmentAtMostMaximum ==
    (Returned /\ shuffle = FALSE) =>
        result.metadata.preferred_matches <= MaxPreferredPairings

C27_Witness ==
    /\ Returned
    /\ shuffle = FALSE
    /\ Len(bloom_slots) = 2
    /\ bloom_slots[1].bloom_level = "Understand"
    /\ bloom_slots[2].bloom_level = "Apply"
    /\ type_slots[1].question_type = "MCQ"
    /\ type_slots[2].question_type = "Short Answer"
    /\ result.metadata.preferred_matches = 1
    /\ MaxPreferredPairings = 2

\* ========================================================================
\* tqs_service.py: generate_tqs
\* ========================================================================
MaxTqsSlots == 2

MAX_RETRIES == 2

\* the question types generate_batch_questions builds a prompt for
BatchQuestionTypes ==
    {"MCQ", "Short Answer", "Essay", "Problem Solving", "Drawing"}

\* slots as the assignment hands them over (to_dict): two outcomes that
\* share their text, two levels, whole points, and three question types of
\* the preference table: one the batch generator builds a prompt for and
\* two it does not
TqsSlotValues ==
    {[outcome_id |-> oid, outcome_text |-> "LO", bloom_level |-> l,
      question_type |-> t, points |-> pts] :
        oid \in {0, 1}, l \in {"Remember", "Create"}, pts \in {1, 2},
        t \in {"MCQ", "Identification", "Drawing/Diagram"}}

TqsSlotLists == UNION {[1..n -> TqsSlotValues] : n \in 0..MaxTqsSlots}

\* required fields present, outcome_text not blank, known bloom_level,
\* points a positive number
ValidSlot(slot) ==
    /\ slot.outcome_text # ""
    /\ slot.bloom_level \in LevelSet
    /\ slot.points > 0

\* key = (question_type, bloom_level, outcome_text)
KeyOf(slot) == <<slot.question_type, slot.bloom_level, slot.outcome_text>>

\* groups.items(): the keys in the order of their first slot, each with its
\* slots in input order
group_slots_by_characteristics(slots) ==
    LET firsts == SortedIds({k \in 1..Len(slots) :
                     \A j \in 1..(k - 1) : KeyOf(slots[j]) # KeyOf(slots[k])})
    IN  [i \in 1..Len(firsts) |->
            [characteristics |-> KeyOf(slots[firsts[i]]),
             batch_slots |->
                SelectSeq(slots, LAMBDA s : KeyOf(s) = KeyOf(slots[firsts[i]]))]]

\* what the generation service sends back for one batch request: an error,
\* a text that holds no JSON array, or a JSON array whose elements are a
\* question with its text ("good"), an object without question text
\* ("empty_text") or something that cannot be merged ("not_dict")
ApiAnswers(n) ==
    {[kind |-> "exception", items |-> <<>>], [kind |-> "text", items |-> <<>>]}
    \cup {[kind |-> "array", items |-> Replicate("good", m)] :
            m \in (0..(n + 1)) \ {n}}
    \cup {[kind |-> "array", items |-> items] : items \in [1..n -> {"good", "empty_text", "not_dict"}]}

\* exactly the requested number of well-formed questions
ExactAnswer(answer, n) ==
    /\ answer.kind = "array"
    /\ Len(answer.items) = n
    /\ \A k \in 1..n : answer.items[k] = "good"

\* (variant: every question of a batch takes the points of the first slot)
MergedQuestionFirstSlotPoints(slot, first, item) ==
    [question_number |-> 0,
     outcome_id |-> slot.outcome_id,
     outcome_text |-> first.outcome_text,
     type |-> first.question_type,
     question_type |-> first.question_type,
     bloom |-> first.bloom_level,
     bloom_level |-> first.bloom_level,
     learning_outcome |-> first.outcome_text,
     points |-> first.points,
     question_text |-> IF item = "good" THEN "text" ELSE ""]

\* question = {...}: type, Bloom level and outcome text of the batch (its
\* first slot), outcome_id and points of the slot, text of the answer
MergedQuestion(slot, first, item) ==
    [question_number |-> 0,
     outcome_id |-> slot.outcome_id,
     outcome_text |-> first.outcome_text,
     type |-> first.question_type,
     question_type |-> first.question_type,
     bloom |-> first.bloom_level,
     bloom_level |-> first.bloom_level,
     learning_outcome |-> first.outcome_text,
     points |-> slot.points,
     question_text |-> IF item = "good" THEN "text" ELSE ""]

\* generate_batch_questions(batch_slots, api_key) for a non-empty batch and
\* the answer the service gives if it is asked
generate_batch_questions(batch_slots, answer) ==
    IF Head(batch_slots).question_type \notin BatchQuestionTypes
    THEN [raised |-> FALSE, called |-> FALSE, questions |-> <<>>]
    ELSE IF answer.kind = "exception"
    THEN [raised |-> TRUE, called |-> TRUE, questions |-> <<>>]
    ELSE IF answer.kind # "array" \/ Len(answer.items) # Len(batch_slots)
    THEN [raised |-> FALSE, called |-> TRUE, questions |-> <<>>]
    ELSE [raised |-> FALSE, called |-> TRUE,
          questions |->
             LET merged == [k \in 1..Len(batch_slots) |->
                               MergedQuestion(batch_slots[k], Head(batch_slots),
                                              answer.items[k])]
                 kept == SelectSeq([k \in 1..Len(batch_slots) |-> k],
                                   LAMBDA k : answer.items[k] # "not_dict")
             IN  [i \in 1..Len(kept) |-> merged[kept[i]]]]

\* validate_question_fields: the fields are present by construction; the
\* text and the type are not empty and the points are positive
validate_question_fields(question) ==
    /\ question.question_text # ""
    /\ question.type # ""
    /\ question.points > 0

validate_tqs_before_stats(tqs) ==
    \A k \in 1..Len(tqs) : validate_question_fields(tqs[k])

InitTqs ==
    /\ assigned_slots \in TqsSlotLists
    /\ shuffle \in BOOLEAN
    /\ pc = "tqs_start"
    /\ groups = <<>>
    /\ group_num = 0
    /\ retry_attempt = 0
    /\ batch_questions = NoBatch
    /\ generated_questions = <<>>
    /\ failed_groups = <<>>
    /\ every_answer_exact = TRUE
    /\ generated_tqs = <<>>
    /\ tqs_stats = NoValue
    /\ api_result = NoValue
    /\ result = NoValue
    /\ tos_matrix = NoValue
    /\ outcomes = <<>>
    /\ question_types_list = <<>>
    /\ bloom_slots = <<>>
    /\ type_slots = <<>>
    /\ available_types = <<>>
    /\ assigned = <<>>
    /\ preferred_matches = 0
    /\ fallback_matches = 0
    /\ verdict = NoValue
    /\ bindings = <<>>
    /\ run = 1
    /\ prev = NoValue
    /\ bloom_weights = NoValue
    /\ total_items = 0
    /\ bloom_items = NoValue

\* what neither generate_tqs nor the question service touches
tqs_untouched ==
    <<tos_matrix, outcomes, question_types_list, shuffle, bloom_slots,
      type_slots, available_types, assigned, preferred_matches,
      fallback_matches, verdict, bindings, run, prev, bloom_weights,
      total_items, bloom_items, assigned_slots>>

\* phases -1 and 0 and the grouping: the API key and the slots are
\* validated, the slots are grouped
ValidateSlots ==
    /\ pc = "tqs_start"
    /\ \E configured \in BOOLEAN :
          IF ~configured
          THEN /\ pc' = "raised"
               /\ result' = [error |-> "EnvironmentError"]
               /\ UNCHANGED <<groups, group_num>>
          ELSE IF assigned_slots = <<>>
                  \/ \E k \in 1..Len(assigned_slots) : ~ValidSlot(assigned_slots[k])
          THEN /\ pc' = "raised"
               /\ result' = [error |-> "ValueError"]
               /\ UNCHANGED <<groups, group_num>>
          ELSE /\ pc' = "batch"
               /\ groups' = group_slots_by_characteristics(assigned_slots)
               /\ group_num' = 1
               /\ UNCHANGED result
    /\ UNCHANGED <<retry_attempt, batch_questions, generated_questions,
                   failed_groups, every_answer_exact, tqs_untouched, sheet_vars>>

\* one pass of "for retry_attempt in range(MAX_RETRIES + 1)" for the current
\* group and, when the loop ends with it, the check after the loop
AttemptBatch ==
    /\ pc = "batch"
    /\ group_num <= Len(groups)
    /\ LET batch_slots == groups[group_num].batch_slots
           num_slots == Len(batch_slots)
       IN  \E answer \in ApiAnswers(num_slots) :
             LET got == generate_batch_questions(batch_slots, answer)
                 success == /\ ~got.raised
                            /\ got.questions # <<>>
                            /\ Len(got.questions) = num_slots
                 new_batch == IF got.raised THEN batch_questions
                              ELSE [is_none |-> FALSE,
                                    questions |-> got.questions]
                 failed == \/ new_batch.is_none
                           \/ Len(new_batch.questions) # num_slots
             IN  /\ every_answer_exact' =
                       (every_answer_exact
                           /\ (got.called => ExactAnswer(answer, num_slots)))
                 /\ generated_questions' =
                       IF success THEN generated_questions \o got.questions
                       ELSE generated_questions
                 /\ IF success \/ retry_attempt = MAX_RETRIES
                    THEN /\ failed_groups' =
                               IF failed
                               THEN Append(failed_groups,
                                           groups[group_num].characteristics)
                               ELSE failed_groups
                         /\ group_num' = group_num + 1
                         /\ retry_attempt' = 0
                         /\ batch_questions' = NoBatch
                    ELSE /\ retry_attempt' = retry_attempt + 1
                         /\ batch_questions' = new_batch
                         /\ UNCHANGED <<failed_groups, group_num>>
    /\ UNCHANGED <<pc, result, groups, tqs_untouched, sheet_vars>>

\* after the last group: nothing generated is a RuntimeError; otherwise the
\* questions are shuffled and numbered, and the sheet is returned unless a
\* question is missing (AssertionError) or invalid (RuntimeError)
FinishTqs ==
    /\ pc = "batch"
    /\ group_num > Len(groups)
    /\ IF failed_groups # <<>> /\ generated_questions = <<>>
       THEN /\ pc' = "raised"
            /\ result' = [error |-> "RuntimeError"]
            /\ UNCHANGED generated_questions
       ELSE \E final \in FinalOrders(generated_questions, shuffle) :
              LET numbered == [i \in 1..Len(final) |->
                                 [final[i] EXCEPT !.question_number = i]]
              IN  /\ generated_questions' = numbered
                  /\ IF Len(numbered) # Len(assigned_slots)
                     THEN /\ pc' = "raised"
                          /\ result' = [error |-> "AssertionError"]
                     ELSE IF ~validate_tqs_before_stats(numbered)
                     THEN /\ pc' = "raised"
                          /\ result' = [error |-> "RuntimeError"]
                     ELSE /\ pc' = "tqs_returned"
                          /\ result' = numbered
    /\ UNCHANGED <<groups, group_num, retry_attempt, batch_questions,
                   failed_groups, every_answer_exact, tqs_untouched, sheet_vars>>

NextTqs == ValidateSlots \/ AttemptBatch \/ FinishTqs

SpecTqs == InitTqs /\ [][NextTqs]_vars

\* (outcome_id, Bloom level, question type, points)
BlueprintFields(list) ==
    [k \in 1..Len(list) |->
        <<list[k].outcome_id, list[k].bloom_level, list[k].question_type,
          list[k].points>>]

C29_EveryBlueprintGenerated ==
    (pc = "raised" /\ every_answer_exact) =>
        result.error \in {"EnvironmentError", "ValueError"}

\* ------------------------------------------------------------------------
\* The question service: index-based edits of the stored sheet
\* (question_api_service.py)
\* ------------------------------------------------------------------------

MaxSheetLen == 2

\* the fields of a question that the numbering and the statistics read
SheetQuestionData ==
    [type : {"MCQ", "Essay"}, bloom : {"Remember", "Create"}, points : {1, 2}]

\* get_tqs_statistics(tqs): the dictionaries hold the keys that occur
get_tqs_statistics(tqs) ==
    LET ids == 1..Len(tqs)
        types == {tqs[i].type : i \in ids}
        blooms == {tqs[i].bloom : i \in ids}
        count(field, v) == Cardinality({i \in ids : tqs[i][field] = v})
        points(field, v) ==
            SumSeq([i \in ids |->
                       IF tqs[i][field] = v THEN tqs[i].points ELSE 0])
    IN  [total_questions |-> Len(tqs),
         total_points |-> SumSeq([i \in ids |-> tqs[i].points]),
         questions_by_type |-> [t \in types |-> count("type", t)],
         points_by_type |-> [t \in types |-> points("type", t)],
         questions_by_bloom |-> [b \in blooms |-> count("bloom", b)],
         points_by_bloom |-> [b \in blooms |-> points("bloom", b)]]

\* a sheet as generate_tqs returns it for a blueprint that alternates
\* between two kinds of slots: numbered 1..N, with its statistics
InitSheet ==
    /\ assigned_slots =
          [i \in 1..MaxSheetLen |->
              [outcome_id |-> 0, outcome_text |-> "LO",
               bloom_level |-> IF i % 2 = 1 THEN "Remember" ELSE "Create",
               question_type |-> IF i % 2 = 1 THEN "MCQ" ELSE "Essay",
               points |-> IF i % 2 = 1 THEN 1 ELSE 2]]
    /\ generated_tqs =
          [i \in 1..MaxSheetLen |->
              [question_number |-> i,
               type |-> assigned_slots[i].question_type,
               bloom |-> assigned_slots[i].bloom_level,
               points |-> assigned_slots[i].points]]
    /\ tqs_stats = get_tqs_statistics(generated_tqs)
    /\ api_result = NoValue
    /\ pc = "sheet"
    /\ shuffle = FALSE
    /\ groups = <<>>
    /\ group_num = 0
    /\ retry_attempt = 0
    /\ batch_questions = NoBatch
    /\ generated_questions = <<>>
    /\ failed_groups = <<>>
    /\ every_answer_exact = TRUE
    /\ result = NoValue
    /\ tos_matrix = NoValue
    /\ outcomes = <<>>
    /\ question_types_list = <<>>
    /\ bloom_slots = <<>>
    /\ type_slots = <<>>
    /\ available_types = <<>>
    /\ assigned = <<>>
    /\ preferred_matches = 0
    /\ fallback_matches = 0
    /\ verdict = NoValue
    /\ bindings = <<>>
    /\ run = 1
    /\ prev = NoValue
    /\ bloom_weights = NoValue
    /\ total_items = 0
    /\ bloom_items = NoValue

\* create_question(question_data, session_state)
create_question ==
    /\ Len(generated_tqs) < MaxSheetLen
    /\ \E question_data \in SheetQuestionData :
          LET questions == generated_tqs
              n == IF questions # <<>>
                   THEN (CHOOSE m \in 1..MaxSheetLen :
                            /\ \E i \in 1..Len(questions) :
                                  questions[i].question_number = m
                            /\ \A i \in 1..Len(questions) :
                                  questions[i].question_number <= m) + 1
                   ELSE 1
              appended ==
                  Append(questions,
                         [question_number |-> n,
                          type |-> question_data.type,
                          bloom |-> question_data.bloom,
                          points |-> question_data.points])
          IN  /\ generated_tqs' = appended
              /\ tqs_stats' = get_tqs_statistics(appended)
              /\ api_result' = [call |-> "create_question",
                                question_index |-> Len(questions),
                                success |-> TRUE]
    /\ UNCHANGED <<pc, result, groups, group_num, retry_attempt,
                   batch_questions, generated_questions, failed_groups,
                   every_answer_exact, tqs_untouched>>

\* what update_question_validated is asked to change: the keys present and
\* their values (a Bloom level that may be unknown, points that may be out
\* of range); the index runs from one below to one above every list
UpdateData ==
    {d \in [keys : SUBSET {"bloom_level", "points"},
            bloom_level : {"Remember", "Create", "Knowledge"},
            points : {0, 1, 2, 101}] :
        /\ "bloom_level" \notin d.keys => d.bloom_level = "Remember"
        /\ "points" \notin d.keys => d.points = 1}

\* update_question_validated(question_index, update_data, session_state):
\* the range check, the validation, clean_update and update_question
update_question_validated ==
    \E question_index \in (0 - 1)..MaxSheetLen, update_data \in UpdateData :
      LET questions == generated_tqs
          errors ==
              \/ /\ "bloom_level" \in update_data.keys
                 /\ update_data.bloom_level \notin LevelSet
              \/ /\ "points" \in update_data.keys
                 /\ (update_data.points <= 0 \/ update_data.points > 100)
          old == questions[question_index + 1]
          updated ==
              [old EXCEPT
                 !.bloom = IF "bloom_level" \in update_data.keys
                           THEN update_data.bloom_level ELSE @,
                 !.points = IF "points" \in update_data.keys
                            THEN update_data.points ELSE @]
          changed == [questions EXCEPT ![question_index + 1] = updated]
      IN  /\ IF question_index < 0 \/ question_index >= Len(questions)
                \/ errors
             THEN /\ api_result' = [call |-> "update_question_validated",
                                    question_index |-> question_index,
                                    success |-> FALSE]
                  /\ UNCHANGED <<generated_tqs, tqs_stats>>
             ELSE /\ generated_tqs' = changed
                  /\ tqs_stats' = get_tqs_statistics(changed)
                  /\ api_result' = [call |-> "update_question_validated",
                                    question_index |-> question_index,
                                    success |-> TRUE]
          /\ UNCHANGED <<pc, result, groups, group_num, retry_attempt,
                         batch_questions, generated_questions, failed_groups,
                         every_answer_exact, tqs_untouched>>

\* (variant: the questions after the deleted one keep their numbers)
RenumberedNot(questions) == questions

\* for i, q in enumerate(questions): q['question_number'] = i + 1
Renumbered(questions) ==
    [i \in 1..Len(questions) |-> [questions[i] EXCEPT !.question_number = i]]

\* delete_question(question_index, session_state)
delete_question ==
    \E question_index \in (0 - 1)..MaxSheetLen :
      LET questions == generated_tqs
      IN  /\ IF 0 <= question_index /\ question_index < Len(questions)
             THEN LET popped ==
                          [i \in 1..(Len(questions) - 1) |->
                              IF i <= question_index THEN questions[i]
                              ELSE questions[i + 1]]
                      remaining == Renumbered(popped)
                  IN  /\ generated_tqs' = remaining
                      /\ tqs_stats' = get_tqs_statistics(remaining)
                      /\ api_result' = [call |-> "delete_question",
                                        question_index |-> question_index,
                                        success |-> TRUE]
             ELSE /\ api_result' = [call |-> "delete_question",
                                    question_index |-> question_index,
                                    success |-> FALSE]
                  /\ UNCHANGED <<generated_tqs, tqs_stats>>
          /\ UNCHANGED <<pc, result, groups, group_num, retry_attempt,
                         batch_questions, generated_questions, failed_groups,
                         every_answer_exact, tqs_untouched>>

\* regenerate_question(question_index, api_key, session_state): the slot is
\* rebuilt from the old question; generate_question_with_gemini answers
\* with a question for that slot (numbered 0) or with None; the new
\* question takes the old number
regenerate_question ==
    \E question_index \in (0 - 1)..MaxSheetLen, generated \in BOOLEAN :
      LET questions == generated_tqs
          old_question == questions[question_index + 1]
          new_question ==
              [question_number |-> old_question.question_number,
               type |-> old_question.type,
               bloom |-> old_question.bloom,
               points |-> old_question.points]
          changed == [questions EXCEPT ![question_index + 1] = new_question]
      IN  /\ IF 0 <= question_index /\ question_index < Len(questions)
                /\ generated
             THEN /\ generated_tqs' = changed
                  /\ tqs_stats' = get_tqs_statistics(changed)
                  /\ api_result' = [call |-> "regenerate_question",
                                    question_index |-> question_index,
                                    success |-> TRUE]
             ELSE /\ api_result' = [call |-> "regenerate_question",
                                    question_index |-> question_index,
                                    success |-> FALSE]
                  /\ UNCHANGED <<generated_tqs, tqs_stats>>
          /\ UNCHANGED <<pc, result, groups, group_num, retry_attempt,
                         batch_questions, generated_questions, failed_groups,
                         every_answer_exact, tqs_untouched>>

NextSheet ==
    \/ create_question
    \/ update_question_validated
    \/ delete_question
    \/ regenerate_question

SpecSheet == InitSheet /\ [][NextSheet]_vars

\* the index of the last call lies outside the list the call found
OutOfRangeCall ==
    /\ api_result'.call # "create_question"
    /\ (api_result'.question_index < 0
           \/ api_result'.question_index >= Len(generated_tqs))

SheetConsistent ==
    /\ \A i \in 1..Len(generated_tqs) : generated_tqs[i].question_number = i
    /\ tqs_stats = get_tqs_statistics(generated_tqs)

\* C30: starting from a sheet numbered 1..N, after any sequence of
\* delete_question, update_question_validated, regenerate_question and
\* create_question calls the question at list index i has question_number
\* i + 1 and the stored statistics are the statistics of the current list; a
\* call with an out-of-range index returns failure and leaves the list and
\* the statistics unchanged; no call re-runs the apportionment or the
\* assignment or changes the stored TOS.
C30_IndexEditsKeepNumbering ==
    /\ []SheetConsistent
    /\ [][OutOfRangeCall =>
             /\ ~api_result'.success
             /\ UNCHANGED <<generated_tqs, tqs_stats>>]_vars
    /\ [][UNCHANGED <<pc, result, tqs_untouched>>]_vars

C30_Witness ==
    /\ api_result # NoValue
    /\ api_result.call = "delete_question"
    /\ api_result.question_index = 0
    /\ api_result.success
    /\ Len(generated_tqs) = 1
    /\ generated_tqs[1].type = "Essay"
    /\ generated_tqs[1].bloom = "Remember"
    /\ tqs_stats.points_by_type = [t \in {"Essay"} |-> 2]

====
